---- MODULE Spec2Model ----
(***************************************************************************)
(* Model of the schedule generator and validator of the MIT Schedule       *)
(* Advisor (backend/app/services/solver/schedule_solver.py together with   *)
(* the data model of backend/app/models/schemas.py).                       *)
(*                                                                         *)
(* A term id is the string f"{2024 + year}{code}"; it is modelled as the   *)
(* sequence of its characters.  An assignment of the 0/1 decision          *)
(* variables course_vars[c][t] is modelled as a sequence a, indexed like   *)
(* the list of planned terms, where a[i] is the set of course ids whose    *)
(* variable for terms[i] has the value 1.                                  *)
(***************************************************************************)
EXTENDS Integers, Sequences, FiniteSets, TLC

VARIABLES
    student_profile,    \* StudentProfile: year, semester, completed_courses, preferences
    requirements,       \* List[Requirement]
    available_courses,  \* Dict[str, Course] in insertion order: a sequence of Course records
    course_offerings,   \* Dict[str, List[str]]: a function from term ids to sets of course ids
    preferences,        \* the preferences argument of solve: None or a map of weights
    pc,                 \* position of the caller: "start", "returned", "raised", "validated"
    planned_terms,      \* solve's local terms: the term ids _generate_terms returned
    status,             \* status reported by the solver backend, or None
    solution,           \* the values of course_vars in the backend's solution, or None
    result,             \* the pair returned by solve: [schedule, score]
    schedule,           \* the Schedule handed to validate_schedule
    validation,         \* the ScheduleValidation returned by validate_schedule, or None
    meetings,           \* the two MeetingTime objects of a conflicts_with comparison
    conflict,           \* what a.conflicts_with(b) and b.conflicts_with(a) returned, or None
    instances,          \* ScheduleSolver objects: their attributes self.model, self.solver
    models,             \* the CpModel objects created so far
    solvers,            \* the CpSolver objects created so far
    calls               \* the frames of the solve calls that run on the instances

\* the state that only the comparison of meeting times and the overlapping calls use
other_vars == <<meetings, conflict, instances, models, solvers, calls>>

vars == <<student_profile, requirements, available_courses, course_offerings, preferences, pc, planned_terms, status, solution, result, schedule, validation, other_vars>>

(***************************************************************************)
(* Program constants                                                       *)
(***************************************************************************)
SOLVER_MAX_TERMS == 8
DEFAULT_MAX_UNITS_PER_TERM == 60
DEFAULT_MIN_UNITS_PER_TERM == 36
MIN_TERM_UNITS == 12
BASE_YEAR == 2024

(***************************************************************************)
(* Bounds of the model                                                     *)
(***************************************************************************)
MaxExtTerms == 2

(***************************************************************************)
(* Generic helpers                                                         *)
(***************************************************************************)
Range(s) == {s[i] : i \in DOMAIN s}

RECURSIVE SumSeq(_)
SumSeq(s) == IF s = <<>> THEN 0 ELSE Head(s) + SumSeq(Tail(s))

RECURSIVE Flatten(_)
Flatten(ss) == IF ss = <<>> THEN <<>> ELSE Head(ss) \o Flatten(Tail(ss))

\* [f(x) for x in s if p(x)] for the sequence of indices idx
RECURSIVE SelectIdx(_, _)
SelectIdx(n, keep) ==
    IF n = 0 THEN <<>>
    ELSE SelectIdx(n - 1, keep) \o (IF n \in keep THEN <<n>> ELSE <<>>)

(***************************************************************************)
(* schemas.py: Term, ScheduledTerm.term_id                                 *)
(***************************************************************************)
FALL == "fall"
IAP == "iap"
SPRING == "spring"
SUMMER == "summer"
Term == {FALL, IAP, SPRING, SUMMER}

DigitChars == <<"0", "1", "2", "3", "4", "5", "6", "7", "8", "9">>

\* str(n) for a natural number n
RECURSIVE StrOfInt(_)
StrOfInt(n) ==
    IF n < 10 THEN <<DigitChars[n + 1]>>
    ELSE StrOfInt(n \div 10) \o <<DigitChars[(n % 10) + 1]>>

DigitValue(ch) == CHOOSE d \in 0..9 : DigitChars[d + 1] = ch

\* int(s) for a sequence of digit characters
RECURSIVE IntOfStr(_)
IntOfStr(s) ==
    IF s = <<>> THEN 0
    ELSE 10 * IntOfStr(SubSeq(s, 1, Len(s) - 1)) + DigitValue(s[Len(s)])

\* ScheduledTerm.term_id: semester_codes
semester_codes == [fall |-> <<"F", "A">>, iap |-> <<"I", "A">>,
                   spring |-> <<"S", "P">>, summer |-> <<"S", "U">>]

term_id(year, semester) == StrOfInt(year) \o semester_codes[semester]

(***************************************************************************)
(* schemas.py: Course, Requirement, StudentProfile                         *)
(* Optional fields: None and the empty value behave alike in every test    *)
(* the code makes (truthiness), so courses_allowed = None is <<>>,         *)
(* category = None is "", units_required = None is 0 and                   *)
(* student_rating = None is 0.  Ratings and weights are in hundredths.     *)
(***************************************************************************)
SPECIFIC_COURSE == "specific_course"
CATEGORY == "category"
UNITS == "units"
ELECTIVE == "elective"
RequirementType == {SPECIFIC_COURSE, CATEGORY, UNITS, ELECTIVE}

Course(id, units, prerequisites, meets_requirements, student_rating) ==
    [id |-> id, units |-> units, prerequisites |-> prerequisites,
     meets_requirements |-> meets_requirements, student_rating |-> student_rating]

Requirement(id, rule_type, courses_allowed, category, units_required) ==
    [id |-> id, description |-> id, rule_type |-> rule_type,
     courses_allowed |-> courses_allowed, category |-> category,
     units_required |-> units_required]

\* StudentProfile.optimization_weights default_factory
default_optimization_weights ==
    [minimize_mornings |-> 50, balance_workload |-> 80,
     front_load_major |-> 30, maximize_ratings |-> 60]

\* dict.get(key, default)
Get(map, key, default) == IF key \in DOMAIN map THEN map[key] ELSE default

\* Dict[str, Course] as a sequence of records with distinct ids
Keys(courses) == {courses[k].id : k \in DOMAIN courses}
Lookup(courses, cid) == courses[CHOOSE k \in DOMAIN courses : courses[k].id = cid]

(***************************************************************************)
(* ScheduleSolver._generate_terms                                          *)
(***************************************************************************)
\* the table with an entry for Term.SUMMER as well
semester_order_with_summer == [fall |-> 0, iap |-> 1, spring |-> 2, summer |-> 2]

semester_order == [fall |-> 0, iap |-> 1, spring |-> 2]
semesters == <<FALL, IAP, SPRING>>
generate_codes == << <<"F", "A">>, <<"I", "A">>, <<"S", "P">> >>

\* semester_order[current_semester] raises KeyError for Term.SUMMER
generate_terms_raises(profile) == profile.semester \notin DOMAIN semester_order

\* the IAP slots emitted like the others
RECURSIVE generate_terms_loop_with_iap(_, _, _)
generate_terms_loop_with_iap(year, semester_idx, n) ==
    IF n = 0 THEN <<>>
    ELSE << StrOfInt(BASE_YEAR + year) \o generate_codes[semester_idx + 1] >>
            \o generate_terms_loop_with_iap(IF (semester_idx + 1) % 3 = 0 THEN year + 1 ELSE year,
                                            (semester_idx + 1) % 3, n - 1)

RECURSIVE generate_terms_loop(_, _, _)
generate_terms_loop(year, semester_idx, n) ==
    IF n = 0 THEN <<>>
    ELSE LET semester == semesters[semester_idx + 1]
             emitted == IF semester # IAP
                        THEN << StrOfInt(BASE_YEAR + year) \o generate_codes[semester_idx + 1] >>
                        ELSE <<>>
             next_idx == (semester_idx + 1) % 3
             next_year == IF next_idx = 0 THEN year + 1 ELSE year
         IN  emitted \o generate_terms_loop(next_year, next_idx, n - 1)

generate_terms(profile) ==
    generate_terms_loop(profile.year, semester_order[profile.semester], SOLVER_MAX_TERMS)

(***************************************************************************)
(* The constraint model built by solve.  course_vars has one variable for  *)
(* every (course of available_courses, planned term); Value(a, c, i) is    *)
(* the value of course_vars[c][terms[i]] under the assignment a.           *)
(***************************************************************************)
Value(a, c, i) == IF c \in a[i] THEN 1 ELSE 0

\* sum(course_vars[c].values()) over the terms assigned so far
TakenCount(a, c) == Cardinality({i \in DOMAIN a : c \in a[i]})

\* the specific_course branch without the final Add(sum(course_taken_vars) >= 1)
RequirementConstraint_NoAtLeastOne(req, courses, a) ==
    IF req.rule_type = UNITS /\ req.category # "" /\ req.units_required # 0
    THEN LET tagged == {k \in DOMAIN courses :
                          req.category \in courses[k].meets_requirements}
         IN  (tagged # {} /\ Len(a) > 0) =>
               SumSeq([n \in 1..Len(courses) |->
                         IF n \in tagged
                         THEN TakenCount(a, courses[n].id) * courses[n].units
                         ELSE 0]) >= req.units_required
    ELSE TRUE

\* _add_requirement_constraints, one requirement
RequirementConstraint(req, courses, a) ==
    IF req.rule_type = SPECIFIC_COURSE
    THEN IF req.courses_allowed # <<>>
         THEN LET known == {k \in DOMAIN req.courses_allowed :
                              req.courses_allowed[k] \in Keys(courses)}
              IN  known # {} =>
                    \E taken \in [known -> BOOLEAN] :
                       /\ \A k \in known :
                            taken[k] => TakenCount(a, req.courses_allowed[k]) >= 1
                       /\ Cardinality({k \in known : taken[k]}) >= 1
         ELSE TRUE
    ELSE IF req.rule_type = UNITS
    THEN IF req.category # "" /\ req.units_required # 0
         THEN LET tagged == {k \in DOMAIN courses :
                               req.category \in courses[k].meets_requirements}
              IN  (tagged # {} /\ Len(a) > 0) =>
                    SumSeq([n \in 1..Len(courses) |->
                              IF n \in tagged
                              THEN TakenCount(a, courses[n].id) * courses[n].units
                              ELSE 0]) >= req.units_required
         ELSE TRUE
    ELSE TRUE

\* _add_requirement_constraints
RequirementConstraints(reqs, courses, a) ==
    \A r \in DOMAIN reqs : RequirementConstraint(reqs[r], courses, a)

\* the prerequisite constraints without the test for completed prerequisites
PrerequisiteConstraints_ignoring_completed(courses, completed_courses, a, i) ==
    \A k \in DOMAIN courses :
      \A q \in DOMAIN courses[k].prerequisites :
        LET course_id == courses[k].id
            prereq == courses[k].prerequisites[q]
            prereq_taken_before == {j \in 1..(i - 1) : prereq \in a[j]}
        IN  IF prereq \notin Keys(courses) THEN Value(a, course_id, i) = 0
            ELSE IF i - 1 > 0
                 THEN Value(a, course_id, i) = 1 => Cardinality(prereq_taken_before) >= 1
                 ELSE TRUE

\* _add_prerequisite_constraints, the constraints on the variables of terms[i]
PrerequisiteConstraints(courses, completed_courses, a, i) ==
    \A k \in DOMAIN courses :
      \A q \in DOMAIN courses[k].prerequisites :
        LET course_id == courses[k].id
            prereq == courses[k].prerequisites[q]
            prereq_taken_before == {j \in 1..(i - 1) : prereq \in a[j]}
        IN  IF prereq \in Range(completed_courses) THEN TRUE
            ELSE IF prereq \notin Keys(courses) THEN Value(a, course_id, i) = 0
            ELSE IF i - 1 > 0
                 THEN Value(a, course_id, i) = 1 => Cardinality(prereq_taken_before) >= 1
                 ELSE TRUE

\* _add_offering_constraints, the constraints on the variables of terms[i]
OfferingConstraints(courses, offerings, terms, a, i) ==
    \A course_id \in Keys(courses) :
      IF terms[i] \in DOMAIN offerings
      THEN course_id \notin offerings[terms[i]] => Value(a, course_id, i) = 0
      ELSE TRUE

\* sum(c.units for the courses of the catalog assigned to terms[i])
TermUnits(courses, a, i) ==
    SumSeq([k \in DOMAIN courses |-> Value(a, courses[k].id, i) * courses[k].units])

\* the configured default whatever the student's preference
max_units_default(profile) == DEFAULT_MAX_UNITS_PER_TERM

max_units(profile) ==
    Get(profile.preferences, "max_units_per_term", DEFAULT_MAX_UNITS_PER_TERM)

\* the unit constraints without the minimum of a term
UnitConstraints_no_minimum(courses, profile, a, i) ==
    Len(courses) > 0 => TermUnits(courses, a, i) <= max_units(profile)

\* the unit constraints added for an empty catalog as well
UnitConstraints_unguarded(courses, profile, a, i) ==
    /\ TermUnits(courses, a, i) <= max_units(profile)
    /\ TermUnits(courses, a, i) >= MIN_TERM_UNITS

\* _add_unit_constraints, the constraints on the variables of terms[i]
UnitConstraints(courses, profile, a, i) ==
    Len(courses) > 0 =>
      /\ TermUnits(courses, a, i) <= max_units(profile)
      /\ TermUnits(courses, a, i) >= MIN_TERM_UNITS

\* the constraints that mention only variables of terms[1..i]
TermConstraints(profile, courses, offerings, terms, a, i) ==
    /\ PrerequisiteConstraints(courses, profile.completed_courses, a, i)
    /\ OfferingConstraints(courses, offerings, terms, a, i)
    /\ UnitConstraints(courses, profile, a, i)

\* every constraint solve adds to the model holds under a
ModelSatisfied(profile, reqs, courses, offerings, terms, a) ==
    /\ Len(a) = Len(terms)
    /\ \A i \in DOMAIN a : a[i] \subseteq Keys(courses)
    /\ RequirementConstraints(reqs, courses, a)
    /\ \A i \in DOMAIN a : TermConstraints(profile, courses, offerings, terms, a, i)

(***************************************************************************)
(* The solver backend (cp_model.CpSolver.Solve): a black box that reports  *)
(* a status and, for OPTIMAL and FEASIBLE, a value for every variable that *)
(* satisfies the model.  The assignments are built term by term.           *)
(***************************************************************************)
OPTIMAL == "OPTIMAL"
FEASIBLE == "FEASIBLE"
INFEASIBLE == "INFEASIBLE"
UNKNOWN == "UNKNOWN"
NOT_SOLVED == "NOT_SOLVED"

RECURSIVE ExtendAssignments(_, _, _, _, _, _)
ExtendAssignments(profile, courses, offerings, terms, partial, i) ==
    IF i > Len(terms) THEN partial
    ELSE ExtendAssignments(profile, courses, offerings, terms,
            {Append(x[1], x[2]) :
               x \in {y \in partial \X SUBSET Keys(courses) :
                        TermConstraints(profile, courses, offerings, terms,
                                        Append(y[1], y[2]), i)}},
            i + 1)

FeasibleAssignments(profile, reqs, courses, offerings, terms) ==
    {a \in ExtendAssignments(profile, courses, offerings, terms, {<<>>}, 1) :
       RequirementConstraints(reqs, courses, a)}

\* the objective with the balance_workload weight added to the rating weight
Objective_with_balance(courses, weights, a) ==
    LET rating_weight == Get(weights, "maximize_ratings", 50)
                           + Get(weights, "balance_workload", 50)
    IN  SumSeq([k \in DOMAIN courses |->
                  IF courses[k].student_rating # 0
                  THEN TakenCount(a, courses[k].id) * courses[k].student_rating * rating_weight
                  ELSE 0])

\* _add_objective: the value of the maximised sum under a (0 when no objective is set)
Objective(courses, weights, a) ==
    LET rating_weight == Get(weights, "maximize_ratings", 50)
    IN  SumSeq([k \in DOMAIN courses |->
                  IF courses[k].student_rating # 0
                  THEN TakenCount(a, courses[k].id) * courses[k].student_rating * rating_weight
                  ELSE 0])

\* the assignments of the largest objective value among the feasible ones
WithObjective(courses, weights, feasible, best) ==
    {a \in feasible : Objective(courses, weights, a) = best}

OptimalAssignments(courses, weights, feasible) ==
    LET values == {Objective(courses, weights, b) : b \in feasible}
    IN  IF feasible = {} THEN {}
        ELSE WithObjective(courses, weights, feasible,
                           CHOOSE v \in values : \A w \in values : w <= v)

\* the values the backend holds when it has found no solution: none
NoSolution(terms) == [i \in DOMAIN terms |-> {}]

Outcome(st, a) == [status |-> st, values |-> a]

\* what Solve can report for a model whose feasible assignments are given:
\* OPTIMAL with an optimal one, FEASIBLE with any (time budget expired),
\* INFEASIBLE when there is none, UNKNOWN when the budget expired first
SolveOutcomes(courses, weights, terms, feasible) ==
    {Outcome(OPTIMAL, a) : a \in OptimalAssignments(courses, weights, feasible)}
      \cup {Outcome(FEASIBLE, a) : a \in feasible}
      \cup (IF feasible = {} THEN {Outcome(INFEASIBLE, NoSolution(terms))} ELSE {})
      \cup {Outcome(UNKNOWN, NoSolution(terms))}

(***************************************************************************)
(* ScheduleSolver._extract_schedule                                        *)
(***************************************************************************)
NoSchedule == [none |-> TRUE]

\* the table with the codes of fall and spring exchanged
decode_semester_exchanged(code) ==
    IF code = <<"F", "A">> THEN SPRING
    ELSE IF code = <<"S", "P">> THEN FALL
    ELSE IF code = <<"I", "A">> THEN IAP
    ELSE "KeyError"

\* {"FA": Term.FALL, "SP": Term.SPRING, "IA": Term.IAP}[semester_code]
decode_semester(code) ==
    IF code = <<"F", "A">> THEN FALL
    ELSE IF code = <<"S", "P">> THEN SPRING
    ELSE IF code = <<"I", "A">> THEN IAP
    ELSE "KeyError"

ScheduledCourse(course, term, year, semester, meeting_times) ==
    [course |-> course, term |-> term, year |-> year, semester |-> semester,
     meeting_times |-> meeting_times]

ScheduledTerm(year, semester, courses) ==
    [year |-> year, semester |-> semester, courses |-> courses]

\* a ScheduledTerm emitted for every planned term, the empty ones too
extract_term_keeping_empty(courses, terms, a, i) ==
    LET tid == terms[i]
        year == IntOfStr(SubSeq(tid, 1, 4))
        semester == decode_semester(SubSeq(tid, 5, Len(tid)))
        chosen == SelectIdx(Len(courses), {k \in DOMAIN courses : Value(a, courses[k].id, i) = 1})
    IN  << ScheduledTerm(year, semester,
                         [n \in DOMAIN chosen |->
                            ScheduledCourse(courses[chosen[n]], tid, year, semester, <<>>)]) >>

extract_term(courses, terms, a, i) ==
    LET tid == terms[i]
        year == IntOfStr(SubSeq(tid, 1, 4))
        semester == decode_semester(SubSeq(tid, 5, Len(tid)))
        chosen == SelectIdx(Len(courses), {k \in DOMAIN courses : Value(a, courses[k].id, i) = 1})
        courses_in_term == [n \in DOMAIN chosen |->
                              ScheduledCourse(courses[chosen[n]], tid, year, semester, <<>>)]
    IN  IF courses_in_term # <<>>
        THEN << ScheduledTerm(year, semester, courses_in_term) >>
        ELSE <<>>

extract_schedule(profile, courses, terms, a) ==
    [student_id |-> profile.id,
     terms |-> Flatten([i \in DOMAIN terms |-> extract_term(courses, terms, a, i)])]

(***************************************************************************)
(* schemas.py: ScheduledTerm.total_units, Schedule.all_courses             *)
(***************************************************************************)
total_units(term) == SumSeq([n \in DOMAIN term.courses |-> term.courses[n].course.units])

all_courses(sched) ==
    Flatten([t \in DOMAIN sched.terms |->
               [n \in DOMAIN sched.terms[t].courses |-> sched.terms[t].courses[n].course.id]])

(***************************************************************************)
(* ScheduleSolver._calculate_score: the score as the fraction num / den.   *)
(* With n terms of units u, variance = (n * sum(u^2) - sum(u)^2) / n^2 and *)
(* balance_score * weight = (w * n^2) / (100 * n^2 + n*sum(u^2)-sum(u)^2)  *)
(* for the weight w in hundredths.                                         *)
(***************************************************************************)
Fraction(num, den) == [num |-> num, den |-> den]

calculate_score(sched, weights) ==
    LET term_units == [t \in DOMAIN sched.terms |-> total_units(sched.terms[t])]
        n == Len(term_units)
        sum_u == SumSeq(term_units)
        sum_sq == SumSeq([t \in DOMAIN term_units |-> term_units[t] * term_units[t]])
        num == Get(weights, "balance_workload", 50) * n * n
        den == 100 * n * n + (n * sum_sq - sum_u * sum_u)
    IN  IF n = 0 THEN Fraction(0, 1)
        ELSE IF num > den THEN Fraction(1, 1)
        ELSE Fraction(num, den)

(***************************************************************************)
(* schemas.py: MeetingTime, ScheduledCourse.has_time_conflict,             *)
(* ScheduledTerm.has_conflicts.  A time string is modelled as the sequence *)
(* of the integer fields that time_str.split(':') yields.                  *)
(***************************************************************************)
MeetingTime(days, start_time, end_time) ==
    [days |-> days, start_time |-> start_time, end_time |-> end_time]

\* MeetingTime._parse_time: hour * 60 + minute, 0 when the unpacking fails
parse_time(time_str) ==
    IF Len(time_str) = 2 THEN time_str[1] * 60 + time_str[2] ELSE 0

\* the intervals taken as closed: touching boundaries overlap
conflicts_with_closed(self, other) ==
    IF ~ \E day \in self.days : day \in other.days THEN FALSE
    ELSE parse_time(self.start_time) <= parse_time(other.end_time)
            /\ parse_time(other.start_time) <= parse_time(self.end_time)

conflicts_with(self, other) ==
    IF ~ \E day \in self.days : day \in other.days THEN FALSE
    ELSE LET start1 == parse_time(self.start_time)
             end1 == parse_time(self.end_time)
             start2 == parse_time(other.start_time)
             end2 == parse_time(other.end_time)
         IN  start1 < end2 /\ start2 < end1

has_time_conflict(self, other) ==
    IF self.term # other.term THEN FALSE
    ELSE \E m1 \in DOMAIN self.meeting_times : \E m2 \in DOMAIN other.meeting_times :
            conflicts_with(self.meeting_times[m1], other.meeting_times[m2])

\* the pairs (i, j), i < j, in the order of the two nested loops
RECURSIVE PairsFrom(_, _, _)
PairsFrom(i, j, n) ==
    IF i > n THEN <<>>
    ELSE IF j > n THEN PairsFrom(i + 1, i + 2, n)
    ELSE << <<i, j>> >> \o PairsFrom(i, j + 1, n)

has_conflicts(term) ==
    LET pairs == PairsFrom(1, 2, Len(term.courses))
        hit == SelectIdx(Len(pairs),
                  {p \in DOMAIN pairs :
                     has_time_conflict(term.courses[pairs[p][1]], term.courses[pairs[p][2]])})
    IN  [n \in DOMAIN hit |-> << term.courses[pairs[hit[n]][1]].course.id,
                                 term.courses[pairs[hit[n]][2]].course.id >>]

(***************************************************************************)
(* ScheduleSolver._check_requirement, _get_prior_courses                   *)
(***************************************************************************)
\* the check with fall-through results taken for satisfied
check_requirement_else_true(requirement, scheduled_courses, courses) ==
    IF requirement.rule_type = SPECIFIC_COURSE /\ requirement.courses_allowed # <<>>
    THEN \E k \in DOMAIN requirement.courses_allowed :
            requirement.courses_allowed[k] \in Range(scheduled_courses)
    ELSE IF requirement.rule_type = UNITS /\ requirement.category # ""
    THEN SumSeq([n \in DOMAIN scheduled_courses |->
                   IF /\ scheduled_courses[n] \in Keys(courses)
                      /\ requirement.category \in
                            Lookup(courses, scheduled_courses[n]).meets_requirements
                   THEN Lookup(courses, scheduled_courses[n]).units
                   ELSE 0]) >= requirement.units_required
    ELSE TRUE

check_requirement(requirement, scheduled_courses, courses) ==
    IF requirement.rule_type = SPECIFIC_COURSE /\ requirement.courses_allowed # <<>>
    THEN \E k \in DOMAIN requirement.courses_allowed :
            requirement.courses_allowed[k] \in Range(scheduled_courses)
    ELSE IF requirement.rule_type = UNITS /\ requirement.category # ""
    THEN SumSeq([n \in DOMAIN scheduled_courses |->
                   IF /\ scheduled_courses[n] \in Keys(courses)
                      /\ requirement.category \in
                            Lookup(courses, scheduled_courses[n]).meets_requirements
                   THEN Lookup(courses, scheduled_courses[n]).units
                   ELSE 0]) >= requirement.units_required
    ELSE FALSE

\* semester_order[...] raises KeyError for Term.SUMMER, on the target or on any term
get_prior_courses_raises(sched, target_semester) ==
    \/ target_semester \notin DOMAIN semester_order
    \/ \E t \in DOMAIN sched.terms : sched.terms[t].semester \notin DOMAIN semester_order

\* (y1, o1) < (y2, o2) on tuples
TupleLess(y1, o1, y2, o2) == y1 < y2 \/ (y1 = y2 /\ o1 < o2)

get_prior_courses(sched, target_year, target_semester) ==
    Flatten([t \in DOMAIN sched.terms |->
               IF TupleLess(sched.terms[t].year, semester_order[sched.terms[t].semester],
                            target_year, semester_order[target_semester])
               THEN [n \in DOMAIN sched.terms[t].courses |-> sched.terms[t].courses[n].course.id]
               ELSE <<>>])

(***************************************************************************)
(* ScheduleSolver.validate_schedule.  A message is modelled as the tuple   *)
(* of its fixed text and the values formatted into it.                     *)
(***************************************************************************)
NoValidation == [none |-> TRUE]

ScheduleValidation(is_valid, satisfied, missing, warnings, errors, conflicts) ==
    [is_valid |-> is_valid, requirements_satisfied |-> satisfied,
     missing_requirements |-> missing, warnings |-> warnings,
     errors |-> errors, conflicts |-> conflicts]

\* requirements_satisfied[req.id] = satisfied, a later entry overwriting an earlier one
requirements_satisfied_of(sched, reqs, courses) ==
    [rid \in {reqs[r].id : r \in DOMAIN reqs} |->
       LET last == CHOOSE r \in DOMAIN reqs :
                      /\ reqs[r].id = rid
                      /\ \A r2 \in DOMAIN reqs : reqs[r2].id = rid => r2 <= r
       IN  check_requirement(reqs[last], all_courses(sched), courses)]

\* every requirement recorded as missing, the satisfied ones too
unsatisfied_unconditional(sched, reqs, courses) == SelectIdx(Len(reqs), DOMAIN reqs)

unsatisfied(sched, reqs, courses) ==
    SelectIdx(Len(reqs), {r \in DOMAIN reqs :
                            ~ check_requirement(reqs[r], all_courses(sched), courses)})

requirement_errors(sched, reqs, courses) ==
    LET missing == unsatisfied(sched, reqs, courses)
    IN  [n \in DOMAIN missing |-> <<"Requirement not satisfied", reqs[missing[n]].description>>]

prerequisite_errors_of(sched, term, scheduled_course) ==
    LET course == scheduled_course.course
        prior_courses == get_prior_courses(sched, term.year, term.semester)
        failed == SelectIdx(Len(course.prerequisites),
                     {q \in DOMAIN course.prerequisites :
                        course.prerequisites[q] \notin Range(prior_courses)})
    IN  [n \in DOMAIN failed |->
           <<"Prerequisite not satisfied", course.prerequisites[failed[n]], course.id,
             term_id(term.year, term.semester)>>]

prerequisite_errors(sched) ==
    Flatten([t \in DOMAIN sched.terms |->
               Flatten([n \in DOMAIN sched.terms[t].courses |->
                          prerequisite_errors_of(sched, sched.terms[t],
                                                 sched.terms[t].courses[n])])])

conflict_entries(sched) ==
    Flatten([t \in DOMAIN sched.terms |->
               LET term_conflicts == has_conflicts(sched.terms[t])
               IN  [n \in DOMAIN term_conflicts |->
                      [term |-> term_id(sched.terms[t].year, sched.terms[t].semester),
                       courses |-> term_conflicts[n]]]])

conflict_errors(sched) ==
    Flatten([t \in DOMAIN sched.terms |->
               IF has_conflicts(sched.terms[t]) # <<>>
               THEN << <<"Time conflicts", term_id(sched.terms[t].year, sched.terms[t].semester)>> >>
               ELSE <<>>])

unit_warnings(sched) ==
    Flatten([t \in DOMAIN sched.terms |->
               LET term == sched.terms[t]
               IN  IF total_units(term) > DEFAULT_MAX_UNITS_PER_TERM
                   THEN << <<"exceeds recommended unit limit",
                             term_id(term.year, term.semester), total_units(term)>> >>
                   ELSE IF total_units(term) < DEFAULT_MIN_UNITS_PER_TERM
                   THEN << <<"below typical unit load",
                             term_id(term.year, term.semester), total_units(term)>> >>
                   ELSE <<>>])

\* an exception inside the try block: the KeyError of _get_prior_courses
validate_schedule_raises(sched) ==
    \E t \in DOMAIN sched.terms :
       /\ sched.terms[t].courses # <<>>
       /\ get_prior_courses_raises(sched, sched.terms[t].semester)

\* warnings counted as errors
is_valid_of_strict(errors, warnings) == Len(errors) = 0 /\ Len(warnings) = 0

\* is_valid = len(errors) == 0
is_valid_of(errors, warnings) == Len(errors) = 0

\* the result of the except branch
validation_error_result ==
    ScheduleValidation(FALSE, <<>>, <<>>, <<>>, << <<"Validation error", "KeyError">> >>, <<>>)

validate_schedule(sched, reqs, courses) ==
    IF validate_schedule_raises(sched) THEN validation_error_result
    ELSE LET errors == requirement_errors(sched, reqs, courses)
                         \o prerequisite_errors(sched) \o conflict_errors(sched)
             warnings == unit_warnings(sched)
             missing == unsatisfied(sched, reqs, courses)
         IN  ScheduleValidation(
                 is_valid_of(errors, warnings),
                 requirements_satisfied_of(sched, reqs, courses),
                 [n \in DOMAIN missing |-> reqs[missing[n]].id],
                 warnings, errors, conflict_entries(sched))

(***************************************************************************)
(* Inputs                                                                  *)
(***************************************************************************)
R1 == Course("R1", 12, <<>>, {"HASS"}, 0)
R2 == Course("R2", 12, <<"R1">>, {}, 0)
R3 == Course("R3", 12, <<"R2">>, {"HASS"}, 450)

Catalogs == { <<>>, <<R1>>, <<R1, R2>>, <<R1, R2, R3>>, <<R2, R3>> }

StudentProfile(year, semester, completed_courses, prefs) ==
    [id |-> "s1", year |-> year, semester |-> semester,
     completed_courses |-> completed_courses, preferences |-> prefs,
     optimization_weights |-> default_optimization_weights]

NoPreferences == <<>>

StartSemesters == {FALL, SUMMER}
CompletedChoices == { <<>>, <<"R1">> }
PreferenceChoices == { NoPreferences, [max_units_per_term |-> 12], [max_units_per_term |-> 24] }

StudentProfiles ==
    {StudentProfile(1, sem, done, prefs) :
       sem \in StartSemesters, done \in CompletedChoices, prefs \in PreferenceChoices}

\* the term ids a plan that starts in year 1 can contain
PlanTermIds ==
    {StrOfInt(y) \o code : y \in (BASE_YEAR + 1)..(BASE_YEAR + 4),
                          code \in { <<"F", "A">>, <<"S", "P">> }}
FallTermIds == {t \in PlanTermIds : SubSeq(t, 5, 6) = <<"F", "A">>}

\* everything offered in every term
EveryTerm == [t \in PlanTermIds |-> {"R1", "R2", "R3"}]

\* R1 and R3 offered in the fall terms only, R2 in the spring terms only
FallSpringOfferings == [t \in PlanTermIds |-> IF t \in FallTermIds THEN {"R1", "R3"} ELSE {"R2"}]

OfferingChoices ==
    { FallSpringOfferings,
      [t \in PlanTermIds |-> IF t \in FallTermIds THEN {"R1", "R2"} ELSE {"R1", "R3"}],
      \* no entry for the first spring term
      [t \in PlanTermIds \ {StrOfInt(BASE_YEAR + 1) \o <<"S", "P">>} |->
         IF t \in FallTermIds THEN {"R1", "R2"} ELSE {"R2", "R3"}] }

NeedR3 == Requirement("need_R3", SPECIFIC_COURSE, <<"R3">>, "", 0)
NeedX == Requirement("need_X", SPECIFIC_COURSE, <<"X">>, "", 0)
Hass24 == Requirement("hass_24", UNITS, <<>>, "HASS", 24)
HassAny == Requirement("hass_any", UNITS, <<>>, "HASS", 0)
Free == Requirement("free", ELECTIVE, <<>>, "", 0)

RequirementLists ==
    { <<>>, <<NeedR3>>, <<NeedX>>, <<Hass24>>, <<HassAny>>, <<Free>>,
      <<NeedR3, Hass24>>, <<HassAny, NeedR3>> }

RECURSIVE SeqsUpTo(_, _)
SeqsUpTo(S, n) ==
    IF n = 0 THEN { <<>> }
    ELSE LET shorter == SeqsUpTo(S, n - 1)
         IN  shorter \cup {Append(s, x) : s \in shorter, x \in S}

NoResult == [schedule |-> NoSchedule, score |-> Fraction(0, 1)]

Inputs(profile, reqs, courses, offerings) ==
    [profile |-> profile, requirements |-> reqs, courses |-> courses, offerings |-> offerings]

GridInputs ==
    {Inputs(p, r, c, o) : p \in StudentProfiles, r \in RequirementLists,
                          c \in Catalogs, o \in OfferingChoices}

\* the chain R1 -> R2 -> R3, all three offered in every term, one course per term
ChainInputs ==
    {Inputs(StudentProfile(1, FALL, done, [max_units_per_term |-> 12]), r,
            <<R1, R2, R3>>, EveryTerm) : done \in CompletedChoices, r \in RequirementLists}

NoConflictResult == [none |-> TRUE]

\* no comparison of meeting times and no overlapping calls are under way
OthersIdle ==
    /\ meetings = <<>>
    /\ conflict = NoConflictResult
    /\ instances = <<>>
    /\ models = <<>>
    /\ solvers = <<>>
    /\ calls = <<>>

Init ==
    /\ OthersIdle
    /\ \E inp \in GridInputs \cup ChainInputs :
          /\ student_profile = inp.profile
          /\ requirements = inp.requirements
          /\ available_courses = inp.courses
          /\ course_offerings = inp.offerings
    /\ preferences = NoPreferences
    /\ pc = "start"
    /\ planned_terms = <<>>
    /\ status = NOT_SOLVED
    /\ solution = <<>>
    /\ result = NoResult
    /\ schedule = NoSchedule
    /\ validation = NoValidation

(***************************************************************************)
(* ScheduleSolver.solve                                                    *)
(***************************************************************************)
\* preferences or student_profile.optimization_weights
effective_preferences(prefs, profile) ==
    IF DOMAIN prefs # {} THEN prefs ELSE profile.optimization_weights

\* every status but INFEASIBLE taken for a solution
solution_found_unless_infeasible(st) == st # INFEASIBLE

\* status == cp_model.OPTIMAL or status == cp_model.FEASIBLE
solution_found(st) == st = OPTIMAL \/ st = FEASIBLE

solve_result(st, profile, courses, terms, weights, a) ==
    IF solution_found(st)
    THEN LET sched == extract_schedule(profile, courses, terms, a)
         IN  [schedule |-> sched, score |-> calculate_score(sched, weights)]
    ELSE NoResult

SolveRaises ==
    /\ pc = "start"
    /\ generate_terms_raises(student_profile)
    /\ pc' = "raised"
    /\ UNCHANGED <<student_profile, requirements, available_courses, course_offerings,
                   preferences, planned_terms, status, solution, result, schedule, validation,
                   other_vars>>

Solve ==
    /\ pc = "start"
    /\ ~ generate_terms_raises(student_profile)
    /\ \E outcome \in SolveOutcomes(
              available_courses,
              effective_preferences(preferences, student_profile),
              generate_terms(student_profile),
              FeasibleAssignments(student_profile, requirements, available_courses,
                                  course_offerings, generate_terms(student_profile))) :
          /\ planned_terms' = generate_terms(student_profile)
          /\ status' = outcome.status
          /\ solution' = outcome.values
          /\ result' = solve_result(outcome.status, student_profile, available_courses,
                                    generate_terms(student_profile),
                                    effective_preferences(preferences, student_profile),
                                    outcome.values)
          /\ schedule' = result'.schedule
    /\ pc' = "returned"
    /\ UNCHANGED <<student_profile, requirements, available_courses, course_offerings,
                   preferences, validation, other_vars>>

(***************************************************************************)
(* ScheduleSolver.validate_schedule, called on the schedule at hand        *)
(***************************************************************************)
\* the exception of the try block, were it not caught
validate_schedule_escapes_uncaught(sched) == validate_schedule_raises(sched)

\* an exception that leaves validate_schedule: none, the handler catches Exception
validate_schedule_escapes(sched) == FALSE

ValidateSchedule ==
    /\ pc \in {"returned", "submitted"}
    /\ schedule # NoSchedule
    /\ IF validate_schedule_escapes(schedule)
       THEN pc' = "validate_raised" /\ validation' = NoValidation
       ELSE /\ pc' = "validated"
            /\ validation' = validate_schedule(schedule, requirements, available_courses)
    /\ UNCHANGED <<student_profile, requirements, available_courses, course_offerings,
                   preferences, planned_terms, status, solution, result, schedule, other_vars>>

Next == SolveRaises \/ Solve \/ ValidateSchedule

Spec == Init /\ [][Next]_vars

(***************************************************************************)
(* validate_schedule on a schedule that is supplied from outside           *)
(***************************************************************************)
MondayMorning == MeetingTime({"Monday"}, <<9, 0>>, <<10, 0>>)

\* a single course of more units than the recommended maximum of a term
Thesis == Course("THU", 72, <<>>, {}, 0)

ExternalCourses(year, semester) ==
    LET tid == term_id(year, semester)
    IN  { <<>>,
          << ScheduledCourse(Thesis, tid, year, semester, <<>>) >>,
          << ScheduledCourse(R1, tid, year, semester, <<MondayMorning>>) >>,
          << ScheduledCourse(R1, tid, year, semester, <<MondayMorning>>),
             ScheduledCourse(R2, tid, year, semester, <<MondayMorning>>) >> }

ExternalTerms ==
    UNION {{ScheduledTerm(year, semester, cs) : cs \in ExternalCourses(year, semester)} :
             year \in {BASE_YEAR + 1, BASE_YEAR + 2}, semester \in Term}

ExternalSchedules ==
    {[student_id |-> "s1", terms |-> ts] : ts \in SeqsUpTo(ExternalTerms, MaxExtTerms)}

ValidatorInit ==
    /\ OthersIdle
    /\ student_profile = StudentProfile(1, FALL, <<>>, NoPreferences)
    /\ requirements \in RequirementLists
    /\ available_courses \in { <<R1>>, <<R1, R2, R3>> }
    /\ course_offerings = FallSpringOfferings
    /\ preferences = NoPreferences
    /\ pc = "submitted"
    /\ planned_terms = <<>>
    /\ status = NOT_SOLVED
    /\ solution = <<>>
    /\ result = NoResult
    /\ schedule \in ExternalSchedules
    /\ validation = NoValidation

ValidatorNext == ValidateSchedule

ValidatorSpec == ValidatorInit /\ [][ValidatorNext]_vars

(***************************************************************************)
(* validate_schedule on one term whose courses carry assorted meeting      *)
(* times; a ScheduledCourse carries its own term label beside its place in *)
(* a ScheduledTerm.                                                        *)
(***************************************************************************)
MondayLate == MeetingTime({"Monday"}, <<9, 30>>, <<10, 30>>)
MondayNext == MeetingTime({"Monday"}, <<10, 0>>, <<11, 0>>)
TuesdayMorning == MeetingTime({"Tuesday"}, <<9, 0>>, <<10, 0>>)

MeetingLists ==
    { <<>>, <<MondayMorning>>, <<MondayLate>>, <<MondayNext>>, <<TuesdayMorning>>,
      <<MondayMorning, MondayNext>> }

TermLabels == {term_id(BASE_YEAR + 1, FALL), term_id(BASE_YEAR + 1, SPRING)}

\* the courses R1, R2, R3 in this order, the first k of them
MeetingCourses(k) ==
    IF k = 0 THEN { <<>> }
    ELSE {[n \in 1..k |-> ScheduledCourse(<<R1, R2, R3>>[n], label[n], BASE_YEAR + 1, FALL,
                                           times[n])] :
            label \in [1..k -> TermLabels], times \in [1..k -> MeetingLists]}

ConflictInit ==
    /\ OthersIdle
    /\ student_profile = StudentProfile(1, FALL, <<>>, NoPreferences)
    /\ requirements = <<>>
    /\ available_courses = <<R1, R2, R3>>
    /\ course_offerings = EveryTerm
    /\ preferences = NoPreferences
    /\ pc = "submitted"
    /\ planned_terms = <<>>
    /\ status = NOT_SOLVED
    /\ solution = <<>>
    /\ result = NoResult
    /\ \E k \in 0..3 : \E cs \in MeetingCourses(k) :
          schedule = [student_id |-> "s1",
                      terms |-> << ScheduledTerm(BASE_YEAR + 1, FALL, cs) >>]
    /\ validation = NoValidation

ConflictNext == ValidateSchedule

ConflictSpec == ConflictInit /\ [][ConflictNext]_vars

(***************************************************************************)
(* _generate_terms on its own, for every year and current semester of a    *)
(* StudentProfile (year: 1..5, semester: any Term)                         *)
(***************************************************************************)
ProfileYears == 1..5

TermsInit ==
    /\ OthersIdle
    /\ student_profile \in {StudentProfile(y, sem, done, prefs) :
                              y \in ProfileYears, sem \in Term,
                              done \in CompletedChoices, prefs \in PreferenceChoices}
    /\ requirements = <<>>
    /\ available_courses = <<>>
    /\ course_offerings = EveryTerm
    /\ preferences = NoPreferences
    /\ pc = "start"
    /\ planned_terms = <<>>
    /\ status = NOT_SOLVED
    /\ solution = <<>>
    /\ result = NoResult
    /\ schedule = NoSchedule
    /\ validation = NoValidation

GenerateTerms ==
    /\ pc = "start"
    /\ ~ generate_terms_raises(student_profile)
    /\ planned_terms' = generate_terms(student_profile)
    /\ pc' = "planned"
    /\ UNCHANGED <<student_profile, requirements, available_courses, course_offerings,
                   preferences, status, solution, result, schedule, validation, other_vars>>

GenerateTermsRaises ==
    /\ pc = "start"
    /\ generate_terms_raises(student_profile)
    /\ pc' = "terms_raised"
    /\ UNCHANGED <<student_profile, requirements, available_courses, course_offerings,
                   preferences, planned_terms, status, solution, result, schedule, validation,
                   other_vars>>

TermsNext == GenerateTerms \/ GenerateTermsRaises

TermsSpec == TermsInit /\ [][TermsNext]_vars

(***************************************************************************)
(* MeetingTime.conflicts_with on two meeting times, called both ways round *)
(***************************************************************************)
MeetingDays == { {}, {"Monday"}, {"Tuesday"}, {"Monday", "Tuesday"} }

\* "9:00", "9:30", "10:00", "11:00" and the malformed "9"
MeetingClock == { <<9, 0>>, <<9, 30>>, <<10, 0>>, <<11, 0>>, <<9>> }

Meetings == {MeetingTime(d, s, e) : d \in MeetingDays, s \in MeetingClock, e \in MeetingClock}

MeetingInit ==
    /\ student_profile = StudentProfile(1, FALL, <<>>, NoPreferences)
    /\ requirements = <<>>
    /\ available_courses = <<>>
    /\ course_offerings = EveryTerm
    /\ preferences = NoPreferences
    /\ pc = "meetings"
    /\ planned_terms = <<>>
    /\ status = NOT_SOLVED
    /\ solution = <<>>
    /\ result = NoResult
    /\ schedule = NoSchedule
    /\ validation = NoValidation
    /\ meetings \in Meetings \X Meetings
    /\ conflict = NoConflictResult
    /\ instances = <<>>
    /\ models = <<>>
    /\ solvers = <<>>
    /\ calls = <<>>

ConflictsWith ==
    /\ pc = "meetings"
    /\ conflict' = [forward |-> conflicts_with(meetings[1], meetings[2]),
                    backward |-> conflicts_with(meetings[2], meetings[1])]
    /\ pc' = "compared"
    /\ UNCHANGED <<student_profile, requirements, available_courses, course_offerings,
                   preferences, planned_terms, status, solution, result, schedule, validation,
                   meetings, instances, models, solvers, calls>>

MeetingNext == ConflictsWith

MeetingSpec == MeetingInit /\ [][MeetingNext]_vars

(***************************************************************************)
(* Two solve calls that overlap in time, on one ScheduleSolver object or   *)
(* on two.  solve keeps its model and its solver in the attributes         *)
(* self.model and self.solver and reads them back at every use; every      *)
(* other value is a local of the call.  A step is one statement of solve   *)
(* (one helper call for the groups of constraints).  The decision          *)
(* variables a call creates form a block of the model they are created in; *)
(* a constraint names its variables by their index in the model it is      *)
(* added to, so it binds the block of the same position there.  The calls  *)
(* plan for the same student, catalog and offerings and differ in their    *)
(* requirement lists (units rules, which create no further variables); no  *)
(* course of the catalog carries a rating, so _add_objective adds nothing. *)
(***************************************************************************)
CallIds == {1, 2}
MODEL_INVALID == "MODEL_INVALID"

Hass72 == Requirement("hass_72", UNITS, <<>>, "HASS", 72)
CallRequirementLists == { <<>>, <<Hass72>> }

NoModel == [created |-> FALSE, blocks |-> 0, constraints |-> {}]
NoSolver == [created |-> FALSE, status |-> NOT_SOLVED, values |-> <<>>]

Frame(self, reqs) ==
    [self |-> self, requirements |-> reqs, pc |-> "start", block |-> 0,
     status |-> NOT_SOLVED, result |-> NoResult]

ConcurrentInit ==
    /\ student_profile = StudentProfile(1, FALL, <<>>, NoPreferences)
    /\ requirements = <<>>
    /\ available_courses = <<R1>>
    /\ course_offerings = EveryTerm
    /\ preferences = NoPreferences
    /\ pc = "overlapping"
    /\ planned_terms = generate_terms(student_profile)
    /\ status = NOT_SOLVED
    /\ solution = <<>>
    /\ result = NoResult
    /\ schedule = NoSchedule
    /\ validation = NoValidation
    /\ meetings = <<>>
    /\ conflict = NoConflictResult
    /\ instances = [i \in CallIds |-> [model |-> 0, solver |-> 0]]
    /\ models = [m \in CallIds |-> NoModel]
    /\ solvers = [m \in CallIds |-> NoSolver]
    /\ \E r1 \in CallRequirementLists, r2 \in CallRequirementLists, self2 \in CallIds :
          calls = <<Frame(1, r1), Frame(self2, r2)>>

\* every assignment of the variables of one block
BlockAssignments ==
    [DOMAIN planned_terms -> SUBSET Keys(available_courses)]

\* the constraints of one helper call, added for the inputs of call d.call
GroupSatisfied(d, a) ==
    IF d.kind = "requirements"
    THEN RequirementConstraints(calls[d.call].requirements, available_courses, a)
    ELSE \A i \in DOMAIN planned_terms :
            IF d.kind = "prerequisites"
            THEN PrerequisiteConstraints(available_courses, student_profile.completed_courses, a, i)
            ELSE IF d.kind = "offerings"
            THEN OfferingConstraints(available_courses, course_offerings, planned_terms, a, i)
            ELSE UnitConstraints(available_courses, student_profile, a, i)

\* the assignments of block b that satisfy the constraints model m holds on it
FeasibleBlock(m, b) ==
    {a \in BlockAssignments :
       \A d \in models[m].constraints : d.block = b => GroupSatisfied(d, a)}

\* the satisfying assignments of the first b blocks of model m
RECURSIVE BlockSolutions(_, _)
BlockSolutions(m, b) ==
    IF b = 0 THEN { <<>> }
    ELSE {Append(v, a) : v \in BlockSolutions(m, b - 1), a \in FeasibleBlock(m, b)}

\* what CpSolver.Solve can report for the model object m
ModelOutcomes(m) ==
    IF \E d \in models[m].constraints : d.block \notin 1..models[m].blocks
    THEN {[status |-> MODEL_INVALID, values |-> <<>>]}
    ELSE {[status |-> st, values |-> v] :
            st \in {OPTIMAL, FEASIBLE}, v \in BlockSolutions(m, models[m].blocks)}
           \cup (IF \E b \in 1..models[m].blocks : FeasibleBlock(m, b) = {}
                 THEN {[status |-> INFEASIBLE, values |-> <<>>]} ELSE {})
           \cup {[status |-> UNKNOWN, values |-> <<>>]}

\* self.model = cp_model.CpModel()
NewModel(c) ==
    /\ calls[c].pc = "start"
    /\ instances' = [instances EXCEPT ![calls[c].self].model = c]
    /\ models' = [models EXCEPT ![c] = [created |-> TRUE, blocks |-> 0, constraints |-> {}]]
    /\ calls' = [calls EXCEPT ![c].pc = "variables"]
    /\ UNCHANGED solvers

\* course_vars[course_id][term_id] = self.model.NewBoolVar(var_name)
NewVariables(c) ==
    /\ calls[c].pc = "variables"
    /\ LET m == instances[calls[c].self].model
       IN  /\ models' = [models EXCEPT ![m].blocks = @ + 1]
           /\ calls' = [calls EXCEPT ![c].block = models[m].blocks + 1,
                                     ![c].pc = "requirements"]
    /\ UNCHANGED <<instances, solvers>>

ConstraintGroups == <<"requirements", "prerequisites", "offerings", "units">>

\* self._add_..._constraints(course_vars, ...): self.model.Add(...)
AddConstraints(c) ==
    /\ \E g \in DOMAIN ConstraintGroups :
          /\ calls[c].pc = ConstraintGroups[g]
          /\ models' = [models EXCEPT ![instances[calls[c].self].model].constraints =
                           @ \cup {[kind |-> ConstraintGroups[g], call |-> c,
                                    block |-> calls[c].block]}]
          /\ calls' = [calls EXCEPT ![c].pc = IF g < Len(ConstraintGroups)
                                               THEN ConstraintGroups[g + 1]
                                               ELSE "new_solver"]
    /\ UNCHANGED <<instances, solvers>>

\* self.solver = cp_model.CpSolver()
NewSolver(c) ==
    /\ calls[c].pc = "new_solver"
    /\ instances' = [instances EXCEPT ![calls[c].self].solver = c]
    /\ solvers' = [solvers EXCEPT ![c] = [created |-> TRUE, status |-> NOT_SOLVED,
                                          values |-> <<>>]]
    /\ calls' = [calls EXCEPT ![c].pc = "solve"]
    /\ UNCHANGED models

\* status = self.solver.Solve(self.model), and the branch on status
RunSolver(c) ==
    /\ calls[c].pc = "solve"
    /\ \E outcome \in ModelOutcomes(instances[calls[c].self].model) :
          /\ solvers' = [solvers EXCEPT ![instances[calls[c].self].solver] =
                            [created |-> TRUE, status |-> outcome.status,
                             values |-> outcome.values]]
          /\ calls' = [calls EXCEPT ![c].status = outcome.status,
                                    ![c].pc = IF solution_found(outcome.status)
                                              THEN "extract" ELSE "returned"]
    /\ UNCHANGED <<instances, models>>

\* _extract_schedule reads self.solver.Value(course_vars[course_id][term_id])
ExtractAndReturn(c) ==
    /\ calls[c].pc = "extract"
    /\ LET s == solvers[instances[calls[c].self].solver]
       IN  IF solution_found(s.status) /\ calls[c].block \in DOMAIN s.values
           THEN calls' = [calls EXCEPT
                            ![c].result = solve_result(calls[c].status, student_profile,
                                              available_courses, planned_terms,
                                              effective_preferences(preferences, student_profile),
                                              s.values[calls[c].block]),
                            ![c].pc = "returned"]
           ELSE calls' = [calls EXCEPT ![c].pc = "raised"]
    /\ UNCHANGED <<instances, models, solvers>>

CallStep(c) ==
    /\ \/ NewModel(c)
       \/ NewVariables(c)
       \/ AddConstraints(c)
       \/ NewSolver(c)
       \/ RunSolver(c)
       \/ ExtractAndReturn(c)
    /\ UNCHANGED <<student_profile, requirements, available_courses, course_offerings,
                   preferences, pc, planned_terms, status, solution, result, schedule,
                   validation, meetings, conflict>>

ConcurrentNext == \E c \in CallIds : CallStep(c)

ConcurrentSpec == ConcurrentInit /\ [][ConcurrentNext]_vars

(***************************************************************************)
(* _calculate_score on a schedule and a preferences map that are supplied  *)
(* from outside.  Weights are in hundredths; the map may lack the          *)
(* balance_workload key.                                                   *)
(***************************************************************************)
BalanceWeights == {0 - 50, 0, 50, 100, 150}

ScorePreferences ==
    {[balance_workload |-> w] : w \in BalanceWeights} \cup {[maximize_ratings |-> 60]}

ScoreInit ==
    /\ OthersIdle
    /\ student_profile = StudentProfile(1, FALL, <<>>, NoPreferences)
    /\ requirements = <<>>
    /\ available_courses = <<R1, R2, R3>>
    /\ course_offerings = FallSpringOfferings
    /\ preferences \in ScorePreferences
    /\ pc = "scoring"
    /\ planned_terms = <<>>
    /\ status = NOT_SOLVED
    /\ solution = <<>>
    /\ result = NoResult
    /\ schedule \in ExternalSchedules
    /\ validation = NoValidation

CalculateScore ==
    /\ pc = "scoring"
    /\ result' = [schedule |-> schedule, score |-> calculate_score(schedule, preferences)]
    /\ pc' = "scored"
    /\ UNCHANGED <<student_profile, requirements, available_courses, course_offerings,
                   preferences, planned_terms, status, solution, schedule, validation,
                   other_vars>>

ScoreNext == CalculateScore

ScoreSpec == ScoreInit /\ [][ScoreNext]_vars

(***************************************************************************)
(* solve on a catalog of courses that are offered in the first planned     *)
(* term only, and on plans that start in each semester of the year         *)
(***************************************************************************)
Core1 == Course("C1", 12, <<>>, {}, 0)
Core2 == Course("C2", 12, <<>>, {}, 0)
Core3 == Course("C3", 12, <<>>, {}, 0)
Filler == Course("F1", 12, <<>>, {}, 0)

NeedCore1 == Requirement("need_C1", SPECIFIC_COURSE, <<"C1">>, "", 0)
NeedCore2 == Requirement("need_C2", SPECIFIC_COURSE, <<"C2">>, "", 0)
NeedCore3 == Requirement("need_C3", SPECIFIC_COURSE, <<"C3">>, "", 0)

FirstTermId == term_id(BASE_YEAR + 1, FALL)

\* the core courses offered in the first planned term only, F1 in every later term
FirstTermOnly ==
    [t \in PlanTermIds |-> IF t = FirstTermId THEN {"C1", "C2", "C3"} ELSE {"F1"}]

FirstTermCatalogs ==
    { <<Core1, Core2>>, <<Core1, Core2, Filler>>, <<Core1, Core2, Core3>>,
      <<Core1, Core2, Core3, Filler>> }

FirstTermRequirements ==
    { <<NeedCore1, NeedCore2>>, <<NeedCore1, NeedCore2, NeedCore3>> }

FirstTermInputs ==
    {Inputs(StudentProfile(1, FALL, <<>>, [max_units_per_term |-> 24]), r, c, FirstTermOnly) :
       r \in FirstTermRequirements, c \in FirstTermCatalogs}

StartYears == {1, 2}

StartInputs ==
    {Inputs(StudentProfile(y, sem, <<>>, prefs), <<>>, c, EveryTerm) :
       y \in StartYears, sem \in Term, c \in { <<R1>>, <<R1, R2>> },
       prefs \in {[max_units_per_term |-> 12], [max_units_per_term |-> 24]}}

\* a course whose prerequisite R9 is in no catalog
R4 == Course("R4", 12, <<"R9">>, {}, 0)

AllOffered == [t \in PlanTermIds |-> {"R1", "R2", "R3", "R4"}]

\* one course per term; prerequisites completed, scheduled, or without a variable
PrerequisiteInputs ==
    {Inputs(StudentProfile(1, FALL, done, [max_units_per_term |-> 12]), <<>>, c, AllOffered) :
       done \in { <<>>, <<"R1">>, <<"R1", "R2">> },
       c \in { <<R1, R2, R4>>, <<R1, R2, R3>>, <<R2, R3>> }}

ScenarioInit ==
    /\ OthersIdle
    /\ \E inp \in FirstTermInputs \cup StartInputs \cup PrerequisiteInputs :
          /\ student_profile = inp.profile
          /\ requirements = inp.requirements
          /\ available_courses = inp.courses
          /\ course_offerings = inp.offerings
    /\ preferences = NoPreferences
    /\ pc = "start"
    /\ planned_terms = <<>>
    /\ status = NOT_SOLVED
    /\ solution = <<>>
    /\ result = NoResult
    /\ schedule = NoSchedule
    /\ validation = NoValidation

ScenarioSpec == ScenarioInit /\ [][Next]_vars

(***************************************************************************)
(* Two solve calls on the same inputs, each with a preferences argument of *)
(* its own: the model each call hands to the backend                       *)
(***************************************************************************)
WeightMaps ==
    { NoPreferences,
      [balance_workload |-> 20],
      [balance_workload |-> 90],
      [minimize_mornings |-> 10, front_load_major |-> 70],
      [maximize_ratings |-> 0],
      [maximize_ratings |-> 0, balance_workload |-> 90],
      [maximize_ratings |-> 60],
      [maximize_ratings |-> 60, front_load_major |-> 10, minimize_mornings |-> 90] }

NoBuiltModel == [built |-> FALSE, feasible |-> {}, objective |-> <<>>, optimal |-> {}]

Call(prefs) == [preferences |-> prefs, pc |-> "start", model |-> NoBuiltModel]

\* the default weights of a profile, and a profile that gives ratings no weight
ProfileWeights ==
    { default_optimization_weights,
      [default_optimization_weights EXCEPT !.maximize_ratings = 0] }

WeightsInit ==
    /\ \E w \in ProfileWeights :
          student_profile =
             [StudentProfile(1, FALL, <<>>, [max_units_per_term |-> 12])
                EXCEPT !.optimization_weights = w]
    /\ requirements \in { <<>>, <<NeedR3>> }
    /\ available_courses = <<R1, R2, R3>>
    /\ course_offerings = EveryTerm
    /\ preferences = NoPreferences
    /\ pc = "pair"
    /\ planned_terms = generate_terms(student_profile)
    /\ status = NOT_SOLVED
    /\ solution = <<>>
    /\ result = NoResult
    /\ schedule = NoSchedule
    /\ validation = NoValidation
    /\ meetings = <<>>
    /\ conflict = NoConflictResult
    /\ instances = <<>>
    /\ models = <<>>
    /\ solvers = <<>>
    /\ \E p1 \in WeightMaps, p2 \in WeightMaps : calls = <<Call(p1), Call(p2)>>

\* solve up to self.solver.Solve: the constraints, given by the assignments that
\* satisfy them, and the objective, given by its value on each of those
BuildModel(c) ==
    /\ calls[c].pc = "start"
    /\ LET weights == effective_preferences(calls[c].preferences, student_profile)
           feasible == FeasibleAssignments(student_profile, requirements, available_courses,
                                           course_offerings, planned_terms)
       IN  calls' = [calls EXCEPT
                       ![c].pc = "built",
                       ![c].model =
                           [built |-> TRUE,
                            feasible |-> feasible,
                            objective |-> [a \in feasible |->
                                             Objective(available_courses, weights, a)],
                            optimal |-> OptimalAssignments(available_courses, weights,
                                                           feasible)]]
    /\ UNCHANGED <<student_profile, requirements, available_courses, course_offerings,
                   preferences, pc, planned_terms, status, solution, result, schedule,
                   validation, meetings, conflict, instances, models, solvers>>

WeightsNext == \E c \in CallIds : BuildModel(c)

WeightsSpec == WeightsInit /\ [][WeightsNext]_vars

(***************************************************************************)
(* validate_schedule against requirements of the kinds for which           *)
(* _check_requirement has no test                                          *)
(***************************************************************************)
InCategory == Requirement("in_hass", CATEGORY, <<>>, "HASS", 12)
NeedNothing == Requirement("need_none", SPECIFIC_COURSE, <<>>, "", 0)
UnitsAnywhere == Requirement("units_24", UNITS, <<>>, "", 24)
UnitsNone == Requirement("units_0", UNITS, <<>>, "", 0)

UntestedRequirementLists ==
    { <<Free>>, <<InCategory>>, <<NeedNothing>>, <<UnitsAnywhere>>, <<UnitsNone>>,
      <<HassAny, Free>>, <<InCategory, HassAny, NeedNothing>> }

UntestedInit ==
    /\ OthersIdle
    /\ student_profile = StudentProfile(1, FALL, <<>>, NoPreferences)
    /\ requirements \in UntestedRequirementLists
    /\ available_courses = <<R1, R2, R3>>
    /\ course_offerings = FallSpringOfferings
    /\ preferences = NoPreferences
    /\ pc = "submitted"
    /\ planned_terms = <<>>
    /\ status = NOT_SOLVED
    /\ solution = <<>>
    /\ result = NoResult
    /\ schedule \in ExternalSchedules
    /\ validation = NoValidation

UntestedSpec == UntestedInit /\ [][ValidatorNext]_vars

(***************************************************************************)
(* Properties.  Vocabulary shared by the statements below.                 *)
(***************************************************************************)
\* solve has returned (the backend has reported a status)
Solved == status # NOT_SOLVED

\* solve has returned a Schedule
HasSchedule == Solved /\ result.schedule # NoSchedule

\* the planned terms of the call
PlannedTerms == planned_terms

\* the ids of the courses a schedule holds in the term with the given id
ScheduledIds(sched, tid) ==
    UNION {{sched.terms[t].courses[n].course.id : n \in DOMAIN sched.terms[t].courses} :
             t \in {u \in DOMAIN sched.terms :
                      term_id(sched.terms[u].year, sched.terms[u].semester) = tid}}

\* the ids scheduled in the i-th planned term
PlannedIds(i) == ScheduledIds(result.schedule, PlannedTerms[i])

\* the unit total of the i-th planned term
PlannedUnits(i) ==
    SumSeq([k \in DOMAIN available_courses |->
              IF available_courses[k].id \in PlannedIds(i)
              THEN available_courses[k].units ELSE 0])

ErrorsOfKind(kind) == {n \in DOMAIN validation.errors : validation.errors[n][1] = kind}

(***************************************************************************)
(* C1: in every schedule solve returns, a course that has a prerequisite   *)
(* the student has not completed is scheduled in a planned term only if    *)
(* that prerequisite is scheduled in a strictly earlier planned term, the  *)
(* first planned term included; and for the chain R1 -> R2 -> R3 with R3   *)
(* required, nothing completed and everything offered in every term, the   *)
(* schedule has R1 strictly before R2 strictly before R3.                  *)
(***************************************************************************)
C1_PrerequisitesFirst ==
    HasSchedule =>
      /\ \A i \in DOMAIN PlannedTerms : \A k \in DOMAIN available_courses :
           available_courses[k].id \in PlannedIds(i) =>
             \A q \in DOMAIN available_courses[k].prerequisites :
                available_courses[k].prerequisites[q]
                      \notin Range(student_profile.completed_courses) =>
                  \E j \in 1..(i - 1) :
                     available_courses[k].prerequisites[q] \in PlannedIds(j)
      /\ ( /\ student_profile.completed_courses = <<>>
           /\ available_courses = <<R1, R2, R3>>
           /\ course_offerings = EveryTerm
           /\ \E r \in DOMAIN requirements : requirements[r] = NeedR3 )
         => \E i1, i2, i3 \in DOMAIN PlannedTerms :
               /\ i1 < i2 /\ i2 < i3
               /\ "R1" \in PlannedIds(i1) /\ "R2" \in PlannedIds(i2) /\ "R3" \in PlannedIds(i3)

(***************************************************************************)
(* C2: in every schedule solve returns, every course scheduled in a term t *)
(* is listed in course_offerings[t]; a planned term without an entry in    *)
(* course_offerings offers nothing.                                        *)
(***************************************************************************)
C2_OnlyOfferedCourses ==
    HasSchedule =>
      \A i \in DOMAIN PlannedTerms : \A c \in PlannedIds(i) :
         /\ PlannedTerms[i] \in DOMAIN course_offerings
         /\ c \in course_offerings[PlannedTerms[i]]

(***************************************************************************)
(* C3: in every schedule solve returns, no course id appears in more than  *)
(* one term.                                                               *)
(***************************************************************************)
C3_AtMostOneTermPerCourse ==
    HasSchedule =>
      \A c \in Keys(available_courses) :
         Cardinality({i \in DOMAIN PlannedTerms : c \in PlannedIds(i)}) <= 1

(***************************************************************************)
(* C4: every planned term of a schedule solve returns has                  *)
(* 12 <= total_units <= max_units, max_units being the student's           *)
(* max_units_per_term preference or DEFAULT_MAX_UNITS_PER_TERM; and when   *)
(* no assignment satisfies all constraints together with these bounds,     *)
(* solve returns (None, 0.0).                                              *)
(***************************************************************************)
WithinUnitBounds(units) ==
    MIN_TERM_UNITS <= units /\ units <= max_units(student_profile)

C4_UnitBounds ==
    /\ HasSchedule =>
         \A i \in DOMAIN PlannedTerms : WithinUnitBounds(PlannedUnits(i))
    /\ Solved =>
         \/ result = NoResult
         \/ \E a \in FeasibleAssignments(student_profile, requirements, available_courses,
                                         course_offerings, PlannedTerms) :
               \A i \in DOMAIN PlannedTerms :
                  WithinUnitBounds(TermUnits(available_courses, a, i))

(***************************************************************************)
(* C5: validate_schedule, run on a schedule solve returned with the same   *)
(* requirements and catalog, reports no prerequisite error, no offering    *)
(* error and no unit-bound error.                                          *)
(***************************************************************************)
C5_RoundTrip ==
    (HasSchedule /\ pc = "validated") =>
      /\ ErrorsOfKind("Prerequisite not satisfied") = {}
      /\ ErrorsOfKind("Course not offered") = {}
      /\ ErrorsOfKind("Unit bound") = {}

(***************************************************************************)
(* C6: every schedule solve returns covers every requirement the generator *)
(* enforces: a specific_course requirement with an allowed course in the   *)
(* catalog has an allowed course scheduled in some term, and a units       *)
(* requirement with a category, a non-zero units_required and a tagged     *)
(* course in the catalog has units(c) summed over all (course, term)       *)
(* assignments of tagged courses >= units_required.                        *)
(***************************************************************************)
Enforced(req) ==
    \/ /\ req.rule_type = SPECIFIC_COURSE
       /\ Range(req.courses_allowed) \cap Keys(available_courses) # {}
    \/ /\ req.rule_type = UNITS
       /\ req.category # "" /\ req.units_required # 0
       /\ \E k \in DOMAIN available_courses :
             req.category \in available_courses[k].meets_requirements

\* units summed over the (course, term) entries of the schedule tagged with the category
ScheduledCategoryUnits(sched, category) ==
    SumSeq(Flatten([t \in DOMAIN sched.terms |->
              [n \in DOMAIN sched.terms[t].courses |->
                 IF category \in sched.terms[t].courses[n].course.meets_requirements
                 THEN sched.terms[t].courses[n].course.units ELSE 0]]))

Covered(req, sched) ==
    IF req.rule_type = SPECIFIC_COURSE
    THEN \E t \in DOMAIN sched.terms : \E n \in DOMAIN sched.terms[t].courses :
            sched.terms[t].courses[n].course.id \in Range(req.courses_allowed)
    ELSE ScheduledCategoryUnits(sched, req.category) >= req.units_required

C6_EnforcedRequirementsCovered ==
    HasSchedule =>
      \A r \in DOMAIN requirements :
         Enforced(requirements[r]) => Covered(requirements[r], result.schedule)

C6_Witness ==
    /\ HasSchedule
    /\ \E r \in DOMAIN requirements :
          /\ Enforced(requirements[r])
          /\ requirements[r].rule_type = UNITS
          /\ ScheduledCategoryUnits(result.schedule, requirements[r].category)
                = requirements[r].units_required

(***************************************************************************)
(* C7: validate_schedule, run on a schedule solve returned for the         *)
(* requirement list R, reports requirements_satisfied[r.id] = true for     *)
(* every r of R, whatever its rule type and fields, and an empty           *)
(* missing_requirements.                                                   *)
(***************************************************************************)
C7_ValidatorAgreesOnRequirements ==
    (HasSchedule /\ pc = "validated") =>
      /\ \A r \in DOMAIN requirements :
            validation.requirements_satisfied[requirements[r].id]
      /\ validation.missing_requirements = <<>>

(***************************************************************************)
(* C8: when the backend reports a status other than OPTIMAL or FEASIBLE,   *)
(* solve returns exactly (None, 0.0) and raises nothing; when it reports   *)
(* OPTIMAL or FEASIBLE, solve returns a Schedule that holds course c in    *)
(* planned term t exactly when the solution gives course_vars[c][t] the    *)
(* value 1, the solution satisfying every constraint of the model.         *)
(***************************************************************************)
C8_NoSolutionIsSignalled ==
    Solved =>
      /\ pc # "raised"
      /\ status \notin {OPTIMAL, FEASIBLE} =>
            result.schedule = NoSchedule /\ result.score.num = 0
      /\ status \in {OPTIMAL, FEASIBLE} =>
            /\ result.schedule # NoSchedule
            /\ ModelSatisfied(student_profile, requirements, available_courses,
                              course_offerings, PlannedTerms, solution)
            /\ \A i \in DOMAIN PlannedTerms : PlannedIds(i) = solution[i]
            /\ \A t \in DOMAIN result.schedule.terms :
                  \E i \in DOMAIN PlannedTerms :
                     term_id(result.schedule.terms[t].year,
                             result.schedule.terms[t].semester) = PlannedTerms[i]

C8_Witness ==
    /\ pc = "returned"
    /\ status = INFEASIBLE
    /\ result = NoResult
    /\ available_courses # <<>>

(***************************************************************************)
(* C9: validate_schedule never raises; for a Schedule with zero terms it   *)
(* returns is_valid = true exactly when no requirement of the list is      *)
(* unsatisfied.                                                            *)
(***************************************************************************)
C9_ValidateNeverRaises ==
    /\ pc # "validate_raised"
    /\ (pc = "validated" /\ schedule.terms = <<>>) =>
          (validation.is_valid <=>
             \A r \in DOMAIN requirements :
                check_requirement(requirements[r], <<>>, available_courses))

C9_Witness ==
    /\ pc = "validated"
    /\ schedule.terms = <<>>
    /\ requirements # <<>>
    /\ validation.is_valid

(***************************************************************************)
(* C10: in every result of validate_schedule, from the normal path or from *)
(* the exception handler, is_valid is true exactly when errors is empty;   *)
(* warnings do not make is_valid false.                                    *)
(***************************************************************************)
C10_ValidIffNoErrors ==
    pc = "validated" => (validation.is_valid <=> validation.errors = <<>>)

C10_Witness ==
    /\ pc = "validated"
    /\ validation.warnings # <<>>
    /\ validation.errors = <<>>
    /\ validation.is_valid

(***************************************************************************)
(* Vocabulary for the statements about validate_schedule.                  *)
(***************************************************************************)
\* validate_schedule has returned its result
Validated == pc = "validated"

\* the positions (term, course) of the courses of the schedule at hand
ScheduledAt ==
    UNION {{<<t, n>> : n \in DOMAIN schedule.terms[t].courses} : t \in DOMAIN schedule.terms}

\* term u lies strictly before term T: year ascending, then Fall < IAP < Spring
StrictlyEarlier(u, T) ==
    /\ u.semester \in {FALL, IAP, SPRING}
    /\ T.semester \in {FALL, IAP, SPRING}
    /\ \/ u.year < T.year
       \/ u.year = T.year /\ semester_order[u.semester] < semester_order[T.semester]

\* the ids scheduled in some term strictly before T
ScheduledBefore(T) ==
    UNION {{schedule.terms[u].courses[n].course.id : n \in DOMAIN schedule.terms[u].courses} :
             u \in {v \in DOMAIN schedule.terms : StrictlyEarlier(schedule.terms[v], T)}}

\* validation.errors holds a prerequisite error for course cid in term tid
PrerequisiteErrorFor(cid, tid) ==
    \E e \in DOMAIN validation.errors :
       /\ validation.errors[e][1] = "Prerequisite not satisfied"
       /\ validation.errors[e][3] = cid
       /\ validation.errors[e][4] = tid

(***************************************************************************)
(* C11: validate_schedule reports a prerequisite error for a scheduled     *)
(* course c in term T exactly when some prerequisite of c is scheduled in  *)
(* no term strictly earlier than T (year ascending, then Fall < IAP <      *)
(* Spring); the same term and later terms do not count, and the student's  *)
(* completed_courses play no part.                                         *)
(***************************************************************************)
C11_PrerequisiteErrorsFollowTermOrder ==
    Validated =>
       \A p \in ScheduledAt :
          LET T == schedule.terms[p[1]]
              c == T.courses[p[2]].course
          IN  PrerequisiteErrorFor(c.id, term_id(T.year, T.semester))
                 <=> \E q \in DOMAIN c.prerequisites :
                        c.prerequisites[q] \notin ScheduledBefore(T)

\* the course at position p stands in a term whose offering list does not hold it
NotOfferedAt(p) ==
    LET T == schedule.terms[p[1]]
        tid == term_id(T.year, T.semester)
    IN  /\ tid \in DOMAIN course_offerings
        /\ T.courses[p[2]].course.id \notin course_offerings[tid]

(***************************************************************************)
(* C12: validate_schedule re-checks the offerings: when the schedule at    *)
(* hand, produced by solve or supplied from outside, places a course in a  *)
(* term in which that course is not offered, the result holds an error and *)
(* is_valid is false.                                                      *)
(***************************************************************************)
C12_ValidatorRechecksOfferings ==
    (Validated /\ \E p \in ScheduledAt : NotOfferedAt(p)) =>
       (validation.errors # <<>> /\ ~ validation.is_valid)

\* the result reports the requirement with this id as satisfied
ReportedSatisfied(rid) ==
    /\ rid \in DOMAIN validation.requirements_satisfied
    /\ validation.requirements_satisfied[rid]

(***************************************************************************)
(* C13: validate_schedule reports a specific_course requirement satisfied  *)
(* exactly when some id of courses_allowed occurs among the courses of the *)
(* schedule, in whatever term, and a units requirement satisfied exactly   *)
(* when the units of the scheduled courses tagged with its category sum to *)
(* at least units_required.                                                *)
(***************************************************************************)
C13_RequirementPredicates ==
    Validated =>
       \A r \in DOMAIN requirements :
          LET req == requirements[r]
          IN  (\/ req.rule_type = SPECIFIC_COURSE
               \/ req.rule_type = UNITS /\ req.category # "")
                 => (ReportedSatisfied(req.id) <=> Covered(req, schedule))

\* the result comes from the normal path, not from the exception handler
NormalResult == Validated /\ ErrorsOfKind("Validation error") = {}

\* the requirements, in list order, whose requirements_satisfied entry is false
ReportedFalse ==
    SelectIdx(Len(requirements),
              {r \in DOMAIN requirements : ~ ReportedSatisfied(requirements[r].id)})

\* the 'Requirement not satisfied' entries of errors, in order
RequirementErrors ==
    LET at == SelectIdx(Len(validation.errors), ErrorsOfKind("Requirement not satisfied"))
    IN  [n \in DOMAIN at |-> validation.errors[at[n]]]

(***************************************************************************)
(* C14: in every normal result of validate_schedule, missing_requirements  *)
(* holds exactly the ids of the requirements whose requirements_satisfied  *)
(* entry is false, in requirement order; errors holds exactly one          *)
(* 'Requirement not satisfied' entry per such requirement; no satisfied    *)
(* requirement appears in missing_requirements.                            *)
(***************************************************************************)
C14_MissingRequirementsAreTheUnsatisfied ==
    NormalResult =>
       /\ validation.missing_requirements =
             [n \in DOMAIN ReportedFalse |-> requirements[ReportedFalse[n]].id]
       /\ RequirementErrors =
             [n \in DOMAIN ReportedFalse |->
                <<"Requirement not satisfied", requirements[ReportedFalse[n]].description>>]
       /\ \A n \in DOMAIN validation.missing_requirements :
             ~ ReportedSatisfied(validation.missing_requirements[n])

C14_Witness ==
    /\ NormalResult
    /\ validation.missing_requirements # <<>>
    /\ \E r \in DOMAIN requirements : ReportedSatisfied(requirements[r].id)
    /\ schedule.terms # <<>>

\* minutes since midnight of a time of day
Minutes(time) == IF Len(time) = 2 THEN 60 * time[1] + time[2] ELSE 0

\* two meetings share a day and their half-open intervals overlap
Overlap(a, b) ==
    /\ a.days \cap b.days # {}
    /\ Minutes(a.start_time) < Minutes(b.end_time)
    /\ Minutes(b.start_time) < Minutes(a.end_time)

\* the pairs i < j of courses of a term that have some pair of conflicting meeting times
CollidingPairs(T) ==
    {pr \in (DOMAIN T.courses) \X (DOMAIN T.courses) :
       /\ pr[1] < pr[2]
       /\ \E m1 \in Range(T.courses[pr[1]].meeting_times) :
          \E m2 \in Range(T.courses[pr[2]].meeting_times) : Overlap(m1, m2)}

\* how many colliding pairs of the schedule's terms make the given conflict entry
CollidingPairsMaking(entry) ==
    Cardinality({x \in UNION {{<<t, pr>> : pr \in CollidingPairs(schedule.terms[t])} :
                                t \in DOMAIN schedule.terms} :
                   /\ term_id(schedule.terms[x[1]].year, schedule.terms[x[1]].semester) = entry.term
                   /\ << schedule.terms[x[1]].courses[x[2][1]].course.id,
                         schedule.terms[x[1]].courses[x[2][2]].course.id >> = entry.courses})

\* every conflict entry that could be recorded for the schedule at hand
PossibleConflictEntries ==
    UNION {{[term |-> term_id(schedule.terms[t].year, schedule.terms[t].semester),
             courses |-> << schedule.terms[t].courses[pr[1]].course.id,
                            schedule.terms[t].courses[pr[2]].course.id >>] :
              pr \in (DOMAIN schedule.terms[t].courses) \X (DOMAIN schedule.terms[t].courses)} :
             t \in DOMAIN schedule.terms}

(***************************************************************************)
(* C15: for every term of a validated schedule, validate_schedule records  *)
(* exactly one conflict entry for each unordered pair of the term's        *)
(* courses that have some pair of conflicting meeting times, and exactly   *)
(* one 'Time conflicts' error for the term if and only if the term has at  *)
(* least one such pair.                                                    *)
(***************************************************************************)
C15_OneConflictEntryPerCollidingPair ==
    Validated =>
       /\ Range(validation.conflicts) \subseteq PossibleConflictEntries
       /\ \A entry \in PossibleConflictEntries :
             Cardinality({n \in DOMAIN validation.conflicts : validation.conflicts[n] = entry})
                = CollidingPairsMaking(entry)
       /\ \A tid \in {term_id(schedule.terms[t].year, schedule.terms[t].semester) :
                        t \in DOMAIN schedule.terms} :
             Cardinality({e \in ErrorsOfKind("Time conflicts") : validation.errors[e][2] = tid})
                = Cardinality({t \in DOMAIN schedule.terms :
                                 /\ term_id(schedule.terms[t].year, schedule.terms[t].semester) = tid
                                 /\ CollidingPairs(schedule.terms[t]) # {}})

(***************************************************************************)
(* C16: a.conflicts_with(b) is true exactly when the day-sets of a and b   *)
(* intersect and start_a < end_b and start_b < end_a; hence it is          *)
(* symmetric, meetings with disjoint day-sets never conflict, and meetings *)
(* on a shared day that only touch at a boundary (end_a = start_b) do not  *)
(* conflict.                                                               *)
(***************************************************************************)
C16_ConflictsWithIsHalfOpenOverlap ==
    pc = "compared" =>
       LET a == meetings[1]
           b == meetings[2]
       IN  /\ conflict.forward <=> Overlap(a, b)
           /\ conflict.forward <=> conflict.backward
           /\ a.days \cap b.days = {} => ~ conflict.forward
           /\ Minutes(a.end_time) = Minutes(b.start_time) => ~ conflict.forward

C16_Witness ==
    /\ pc = "compared"
    /\ meetings[1].days \cap meetings[2].days # {}
    /\ Minutes(meetings[1].start_time) < Minutes(meetings[1].end_time)
    /\ Minutes(meetings[1].end_time) = Minutes(meetings[2].start_time)
    /\ Minutes(meetings[2].start_time) < Minutes(meetings[2].end_time)
    /\ ~ conflict.forward /\ ~ conflict.backward

\* the unit total of a term lies outside the configured band
OutsideBand(T) ==
    LET units == SumSeq([n \in DOMAIN T.courses |-> T.courses[n].course.units])
    IN  units < DEFAULT_MIN_UNITS_PER_TERM \/ units > DEFAULT_MAX_UNITS_PER_TERM

\* the schedule at hand has no defect other than unit totals outside the band
OnlyUnitDefects ==
    /\ \A r \in DOMAIN requirements :
          /\ \/ requirements[r].rule_type = SPECIFIC_COURSE
             \/ requirements[r].rule_type = UNITS /\ requirements[r].category # ""
          /\ Covered(requirements[r], schedule)
    /\ \A p \in ScheduledAt :
          Range(schedule.terms[p[1]].courses[p[2]].course.prerequisites)
             \subseteq ScheduledBefore(schedule.terms[p[1]])
    /\ \A t \in DOMAIN schedule.terms : CollidingPairs(schedule.terms[t]) = {}

(***************************************************************************)
(* C17: for every term of a validated schedule whose total_units lies      *)
(* outside [DEFAULT_MIN_UNITS_PER_TERM, DEFAULT_MAX_UNITS_PER_TERM],       *)
(* validate_schedule adds exactly one warning and no error (and no warning *)
(* for a term inside the band); a schedule whose only defects are          *)
(* unit-band violations is reported is_valid = true.                       *)
(***************************************************************************)
C17_UnitBandGivesWarningsOnly ==
    Validated =>
       /\ \A tid \in {term_id(schedule.terms[t].year, schedule.terms[t].semester) :
                        t \in DOMAIN schedule.terms} :
             Cardinality({w \in DOMAIN validation.warnings : validation.warnings[w][2] = tid})
                = Cardinality({t \in DOMAIN schedule.terms :
                                 /\ term_id(schedule.terms[t].year, schedule.terms[t].semester) = tid
                                 /\ OutsideBand(schedule.terms[t])})
       /\ OnlyUnitDefects => (validation.errors = <<>> /\ validation.is_valid)

\* the semester slots 0 .. SOLVER_MAX_TERMS - 1 of the walk that starts at the student's
\* current semester: position in the cycle Fall, IAP, Spring and year of slot k
SlotSemester(k) == <<FALL, IAP, SPRING>>[((semester_order[student_profile.semester] + k) % 3) + 1]
SlotYear(k) == student_profile.year + ((semester_order[student_profile.semester] + k) \div 3)

\* the slots that emit a term id, in walking order
EmittingSlots ==
    LET slots == [k \in 1..SOLVER_MAX_TERMS |-> k - 1]
        at == SelectIdx(SOLVER_MAX_TERMS, {k \in 1..SOLVER_MAX_TERMS : SlotSemester(k - 1) # IAP})
    IN  [n \in DOMAIN at |-> slots[at[n]]]

TermsFor(i) ==
    {t \in DOMAIN result.schedule.terms :
       term_id(result.schedule.terms[t].year, result.schedule.terms[t].semester) = PlannedTerms[i]}

(***************************************************************************)
(* C19: _extract_schedule includes course c in the ScheduledTerm of term t *)
(* if and only if the solved value of assigned[c][t] is 1; the returned    *)
(* Schedule holds a ScheduledTerm for t if and only if at least one course *)
(* is assigned to t; no ScheduledTerm with an empty course list is         *)
(* emitted.                                                                *)
(***************************************************************************)
C19_ExtractFollowsTheAssignment ==
    HasSchedule =>
       /\ \A i \in DOMAIN PlannedTerms : \A k \in DOMAIN available_courses :
             available_courses[k].id \in PlannedIds(i)
                <=> Value(solution, available_courses[k].id, i) = 1
       /\ \A i \in DOMAIN PlannedTerms :
             /\ TermsFor(i) # {} <=> \E k \in DOMAIN available_courses :
                                        Value(solution, available_courses[k].id, i) = 1
             /\ Cardinality(TermsFor(i)) <= 1
       /\ \A t \in DOMAIN result.schedule.terms :
             /\ result.schedule.terms[t].courses # <<>>
             /\ \E i \in DOMAIN PlannedTerms : t \in TermsFor(i)

C19_Witness ==
    /\ HasSchedule
    /\ \E i \in DOMAIN PlannedTerms : Cardinality(PlannedIds(i)) = 2
    /\ Len(result.schedule.terms) = Len(PlannedTerms)

\* what call c can return when no other call runs: the results of solve on its inputs
AloneResults(c) ==
    {solve_result(outcome.status, student_profile, available_courses, planned_terms,
                  effective_preferences(preferences, student_profile), outcome.values) :
       outcome \in SolveOutcomes(available_courses,
                                 effective_preferences(preferences, student_profile),
                                 planned_terms,
                                 FeasibleAssignments(student_profile, calls[c].requirements,
                                                     available_courses, course_offerings,
                                                     planned_terms))}

(***************************************************************************)
(* C20: solve calls that overlap in time, two calls on the same            *)
(* ScheduleSolver object interleaved statement by statement included,      *)
(* share no mutable model or solver state: each call adds its constraints  *)
(* to its own model only and decodes its own solver's solution only, so    *)
(* each returns the result it would return when run alone.                 *)
(***************************************************************************)
C20_OverlappingCallsAreIndependent ==
    pc = "overlapping" =>
       /\ \A m \in CallIds : \A d \in models[m].constraints : d.call = m
       /\ \A c \in CallIds :
             /\ calls[c].pc # "raised"
             /\ calls[c].pc = "returned" => calls[c].result \in AloneResults(c)

\* the per-term unit totals of the scored schedule
ScoredUnits == [t \in DOMAIN schedule.terms |-> total_units(schedule.terms[t])]

\* D = sum((n*u - S)^2) over the n per-term totals u of sum S: variance = D / n^3
SquaredDeviations ==
    LET n == Len(ScoredUnits)
        S == SumSeq(ScoredUnits)
    IN  SumSeq([t \in DOMAIN ScoredUnits |->
                  (n * ScoredUnits[t] - S) * (n * ScoredUnits[t] - S)])

\* balance_workload * 1/(1 + variance/100) = w * n^3 / (100 * n^3 + D), w in hundredths
WeightedBalance ==
    LET n == Len(ScoredUnits)
    IN  Fraction(Get(preferences, "balance_workload", 50) * n * n * n,
                 100 * n * n * n + SquaredDeviations)

ClampedToUnit(f) ==
    IF f.num < 0 THEN Fraction(0, 1) ELSE IF f.num > f.den THEN Fraction(1, 1) ELSE f

SameFraction(f, g) == f.num * g.den = g.num * f.den

InUnitInterval(f) == f.den > 0 /\ 0 <= f.num /\ f.num <= f.den

(***************************************************************************)
(* C21: _calculate_score returns a value in [0,1] for every schedule and   *)
(* every numeric balance_workload weight, negative ones included, and the  *)
(* value is balance_workload * 1/(1 + variance/100) clamped to [0,1],      *)
(* variance being the population variance of the per-term unit totals.     *)
(***************************************************************************)
C21_ScoreIsClampedWeightedBalance ==
    pc = "scored" =>
       /\ InUnitInterval(result.score)
       /\ schedule.terms # <<>> =>
             SameFraction(result.score, ClampedToUnit(WeightedBalance))

\* solve has returned on the catalog whose core courses are offered in 2025FA only
FirstTermScenario == course_offerings = FirstTermOnly /\ pc \in {"returned", "validated"}

TwoRequired == requirements = <<NeedCore1, NeedCore2>>

ThreeRequired ==
    requirements = <<NeedCore1, NeedCore2, NeedCore3>> /\ "C3" \in Keys(available_courses)

\* the backend settled the model within its time budget
Decided == status \in {OPTIMAL, FEASIBLE, INFEASIBLE}

BothInFirstTerm ==
    /\ HasSchedule
    /\ Len(result.schedule.terms) >= 1
    /\ term_id(result.schedule.terms[1].year, result.schedule.terms[1].semester) = FirstTermId
    /\ {"C1", "C2"} \subseteq ScheduledIds(result.schedule, FirstTermId)
    /\ total_units(result.schedule.terms[1]) = 24

\* the remaining planned terms can be filled: the catalog holds F1
OtherTermsCanBeFilled == "F1" \in Keys(available_courses)

(***************************************************************************)
(* C22: with max_units_per_term = 24 and exactly two required 12-unit      *)
(* courses that are offered only in the first planned term, solve returns  *)
(* a schedule that places both courses in that term, whose total is        *)
(* exactly 24 units; with a third required 12-unit course offered only in  *)
(* that term, solve returns the no-solution result (None, 0.0).            *)
(***************************************************************************)
C22_FirstTermCap ==
    FirstTermScenario =>
       /\ (TwoRequired /\ Decided) => BothInFirstTerm
       /\ ThreeRequired => result = NoResult

(***************************************************************************)
(* C22, amended: the schedule with both courses in the first term is       *)
(* returned when other courses can bring every later planned term to 12    *)
(* units; when none can, and when a third course is required in the first  *)
(* term, solve returns the no-solution result.                             *)
(***************************************************************************)
C22_FirstTermCapWhenFillable ==
    FirstTermScenario =>
       /\ (TwoRequired /\ OtherTermsCanBeFilled /\ Decided) => BothInFirstTerm
       /\ (TwoRequired /\ ~ OtherTermsCanBeFilled) => result = NoResult
       /\ ThreeRequired => result = NoResult

C22_Witness ==
    /\ FirstTermScenario /\ TwoRequired /\ OtherTermsCanBeFilled /\ BothInFirstTerm
    /\ "C3" \in Keys(available_courses)

\* a specific_course requirement all of whose course ids are unknown to the catalog
ReferencesUnknownCourse(req) ==
    /\ req.rule_type = SPECIFIC_COURSE
    /\ req.courses_allowed # <<>>
    /\ Range(req.courses_allowed) \cap Keys(available_courses) = {}

\* the 'Requirement not satisfied' errors that name the requirement
ErrorsNaming(req) ==
    {n \in ErrorsOfKind("Requirement not satisfied") : validation.errors[n][2] = req.description}

\* the warnings that are not about the units of a term
WarningsBesideUnits ==
    {n \in DOMAIN validation.warnings :
       validation.warnings[n][1] \notin {"exceeds recommended unit limit",
                                         "below typical unit load"}}

(***************************************************************************)
(* C23: a malformed requirement never aborts an operation: when a          *)
(* specific_course requirement references a course id that is not in the   *)
(* catalog, validate_schedule skips that check, still evaluates every      *)
(* other requirement and check, and surfaces the problem as a warning      *)
(* rather than as an error or an exception.                                *)
(***************************************************************************)
C23_UnknownCourseIsAWarning ==
    NormalResult =>
       \A r \in DOMAIN requirements :
          ReferencesUnknownCourse(requirements[r]) =>
             /\ ErrorsNaming(requirements[r]) = {}
             /\ WarningsBesideUnits # {}

\* both calls have built their model
BothBuilt == pc = "pair" /\ \A c \in CallIds : calls[c].pc = "built"

\* the two preference maps agree on maximize_ratings: absent from both, or equal
SameRatingWeight(p1, p2) ==
    /\ ("maximize_ratings" \in DOMAIN p1) = ("maximize_ratings" \in DOMAIN p2)
    /\ "maximize_ratings" \in DOMAIN p1 => p1["maximize_ratings"] = p2["maximize_ratings"]

\* both preference maps hold a weight, or neither does
SameEmptiness(p1, p2) == (DOMAIN p1 = {}) = (DOMAIN p2 = {})

SameModel ==
    /\ calls[1].model.feasible = calls[2].model.feasible
    /\ calls[1].model.objective = calls[2].model.objective
    /\ calls[1].model.optimal = calls[2].model.optimal

(***************************************************************************)
(* C24: two solve calls whose inputs differ only in the balance_workload,  *)
(* minimize_mornings or front_load_major weights build the same            *)
(* constraints and the same objective, hence have the same set of feasible *)
(* and of optimal assignments.                                             *)
(***************************************************************************)
C24_OnlyRatingWeightMatters ==
    (BothBuilt /\ SameRatingWeight(calls[1].preferences, calls[2].preferences))
       => SameModel

(***************************************************************************)
(* C24, amended: the same, for two calls whose preferences arguments both  *)
(* hold at least one weight or are both empty: an empty argument is        *)
(* replaced by the profile's optimization_weights, maximize_ratings        *)
(* included.                                                               *)
(***************************************************************************)
C24_OnlyRatingWeightMattersOnceSupplied ==
    (/\ BothBuilt
     /\ SameRatingWeight(calls[1].preferences, calls[2].preferences)
     /\ SameEmptiness(calls[1].preferences, calls[2].preferences))
       => SameModel

C24_Witness ==
    /\ BothBuilt
    /\ SameRatingWeight(calls[1].preferences, calls[2].preferences)
    /\ "balance_workload" \in DOMAIN calls[1].preferences
    /\ "balance_workload" \in DOMAIN calls[2].preferences
    /\ calls[1].preferences["balance_workload"] # calls[2].preferences["balance_workload"]
    /\ calls[1].model.optimal # {}
    /\ calls[1].model.optimal # calls[1].model.feasible

\* the catalog with the completed prerequisites struck from every course
WithoutCompletedPrerequisites(courses, completed_courses) ==
    [k \in DOMAIN courses |->
       [courses[k] EXCEPT !.prerequisites =
          LET kept == SelectIdx(Len(courses[k].prerequisites),
                         {q \in DOMAIN courses[k].prerequisites :
                            courses[k].prerequisites[q] \notin Range(completed_courses)})
          IN  [n \in DOMAIN kept |-> courses[k].prerequisites[kept[n]]]]]

\* course k of the catalog has a prerequisite that is neither completed nor a variable
HasUnavailablePrerequisite(k) ==
    \E q \in DOMAIN available_courses[k].prerequisites :
       /\ available_courses[k].prerequisites[q] \notin Range(student_profile.completed_courses)
       /\ available_courses[k].prerequisites[q] \notin Keys(available_courses)

\* the model built for the inputs of the call admits exactly the assignments it
\* would admit were the completed prerequisites not listed at all
CompletedPrerequisitesAddNothing ==
    LET terms == generate_terms(student_profile)
    IN  FeasibleAssignments(student_profile, requirements, available_courses,
                            course_offerings, terms)
          = FeasibleAssignments([student_profile EXCEPT !.completed_courses = <<>>],
                                requirements,
                                WithoutCompletedPrerequisites(available_courses,
                                    student_profile.completed_courses),
                                course_offerings, terms)

(***************************************************************************)
(* C25: in the generator's prerequisite rule a prerequisite p of course c  *)
(* that is in the student's completed_courses adds no constraint on c; a   *)
(* prerequisite that is neither completed nor has a decision variable      *)
(* forces assigned[c][t] = 0 for every planned term t, so c appears in no  *)
(* returned schedule.                                                      *)
(***************************************************************************)
C25_CompletedOrUnavailablePrerequisite ==
    /\ (pc = "start" /\ ~ generate_terms_raises(student_profile))
          => CompletedPrerequisitesAddNothing
    /\ HasSchedule =>
          \A k \in DOMAIN available_courses :
             HasUnavailablePrerequisite(k) =>
                /\ \A i \in DOMAIN solution : Value(solution, available_courses[k].id, i) = 0
                /\ available_courses[k].id \notin Range(all_courses(result.schedule))

\* R2 stands in a term after the first with its completed prerequisite R1 in no
\* earlier term, on a catalog that holds R1 and a course with an unavailable prerequisite
C25_Witness ==
    /\ HasSchedule
    /\ \E k \in DOMAIN available_courses : HasUnavailablePrerequisite(k)
    /\ "R1" \in Range(student_profile.completed_courses)
    /\ "R1" \in Keys(available_courses)
    /\ \E i \in DOMAIN PlannedTerms :
          /\ i > 1
          /\ "R2" \in PlannedIds(i)
          /\ \A j \in 1..(i - 1) : "R1" \notin PlannedIds(j)

\* the positions of the planned terms in which the solution takes some course
NonEmptyPlanned ==
    SelectIdx(Len(PlannedTerms),
              {i \in DOMAIN PlannedTerms :
                 \E k \in DOMAIN available_courses : Value(solution, available_courses[k].id, i) = 1})

(***************************************************************************)
(* C26: term_id is a function of (year, semester) only, and encoding and   *)
(* decoding round-trip: for every term id t produced by _generate_terms,   *)
(* the ScheduledTerm that _extract_schedule builds for t (year = first     *)
(* four characters, semester via the FA/SP/IA table) has                   *)
(* ScheduledTerm.term_id = t, and every ScheduledCourse in it carries      *)
(* term = t.                                                               *)
(***************************************************************************)
C26_TermIdRoundTrip ==
    HasSchedule =>
       /\ Len(result.schedule.terms) = Len(NonEmptyPlanned)
       /\ \A n \in DOMAIN NonEmptyPlanned :
             LET t == PlannedTerms[NonEmptyPlanned[n]]
                 T == result.schedule.terms[n]
             IN  /\ term_id(T.year, T.semester) = t
                 /\ T.year = IntOfStr(SubSeq(t, 1, 4))
                 /\ \A m \in DOMAIN T.courses :
                       /\ T.courses[m].term = t
                       /\ term_id(T.courses[m].year, T.courses[m].semester) = t

C26_Witness ==
    /\ HasSchedule
    /\ student_profile.semester = IAP
    /\ \E n \in DOMAIN result.schedule.terms : result.schedule.terms[n].semester = SPRING
    /\ \E n \in DOMAIN result.schedule.terms : result.schedule.terms[n].semester = FALL
    /\ \E n \in DOMAIN result.schedule.terms :
          /\ result.schedule.terms[n].year > BASE_YEAR + 2
          /\ Len(result.schedule.terms[n].courses) = 2

\* a requirement for which _check_requirement falls through to `return False`
Untested(req) ==
    \/ req.rule_type \in {ELECTIVE, CATEGORY}
    \/ req.rule_type = SPECIFIC_COURSE /\ req.courses_allowed = <<>>
    \/ req.rule_type = UNITS /\ req.category = ""

\* the plan that takes no course in any of the terms planned for the student
EmptyPlan == NoSolution(generate_terms(student_profile))

\* the requirement adds no constraint to the generator's model: even the empty plan,
\* and the plan that takes every course in every term, pass its group
AddsNoConstraint(req) ==
    /\ RequirementConstraint(req, available_courses, EmptyPlan)
    /\ RequirementConstraint(req, available_courses,
                             [i \in DOMAIN EmptyPlan |-> Keys(available_courses)])

(***************************************************************************)
(* C27: validate_schedule reports every requirement of rule_type elective  *)
(* or category, every specific_course requirement with an empty or missing *)
(* courses_allowed, and every units requirement without a category as      *)
(* unsatisfied for every schedule, so any validation against a requirement *)
(* list containing one of them returns is_valid = false, although the      *)
(* generator adds no constraint for those requirements.                    *)
(***************************************************************************)
C27_UntestedRequirementsNeverPass ==
    Validated =>
       \A r \in DOMAIN requirements :
          Untested(requirements[r]) =>
             /\ ~ ReportedSatisfied(requirements[r].id)
             /\ ~ validation.is_valid
             /\ NormalResult =>
                   /\ requirements[r].id \in DOMAIN validation.requirements_satisfied
                   /\ requirements[r].id \in Range(validation.missing_requirements)
                   /\ ErrorsNaming(requirements[r]) # {}
             /\ AddsNoConstraint(requirements[r])

\* on a schedule with courses another requirement is satisfied and no other check
\* fails, yet the result is invalid with one error per untested requirement
C27_Witness ==
    /\ Validated /\ NormalResult
    /\ requirements = <<InCategory, HassAny, NeedNothing>>
    /\ ReportedSatisfied("hass_any")
    /\ Len(validation.errors) = 2
    /\ ScheduledAt # {}
    /\ ~ validation.is_valid

\* the term ids of the ScheduledTerms of the returned schedule, in order
ReturnedTermIds ==
    [n \in DOMAIN result.schedule.terms |->
       term_id(result.schedule.terms[n].year, result.schedule.terms[n].semester)]

\* year ascending, then Fall before Spring
Chronological(u, T) ==
    \/ u.year < T.year
    \/ u.year = T.year /\ u.semester = FALL /\ T.semester = SPRING

(***************************************************************************)
(* C28: when the catalog is non-empty, every schedule returned by solve    *)
(* contains exactly one ScheduledTerm for every term id produced by        *)
(* _generate_terms (none omitted, because each planned term must carry at  *)
(* least 12 units), and the terms appear in strictly increasing            *)
(* chronological order (year, then Fall before Spring) with no duplicate   *)
(* term id.                                                                *)
(***************************************************************************)
C28_OneTermPerPlannedTermInOrder ==
    (HasSchedule /\ available_courses # <<>>) =>
       /\ ReturnedTermIds = PlannedTerms
       /\ PlannedTerms = generate_terms(student_profile)
       /\ \A n \in DOMAIN result.schedule.terms :
             /\ result.schedule.terms[n].courses # <<>>
             /\ total_units(result.schedule.terms[n]) >= MIN_TERM_UNITS
       /\ \A n \in DOMAIN result.schedule.terms, m \in DOMAIN result.schedule.terms :
             /\ n < m => Chronological(result.schedule.terms[n], result.schedule.terms[m])
             /\ n # m => ReturnedTermIds[n] # ReturnedTermIds[m]

C28_Witness ==
    /\ HasSchedule
    /\ student_profile.semester = SPRING
    /\ Len(result.schedule.terms) = 6
    /\ \E n \in DOMAIN result.schedule.terms : Len(result.schedule.terms[n].courses) = 2
    /\ \E n \in DOMAIN result.schedule.terms : Len(result.schedule.terms[n].courses) = 1

\* solve has ended, by a return or by an exception
SolveEnded == pc \in {"returned", "validated", "raised"}

(***************************************************************************)
(* C29: for a StudentProfile whose current semester is summer (a legal     *)
(* Term value), _generate_terms fails on the semester lookup and solve     *)
(* re-raises the exception; it returns neither a schedule nor the          *)
(* (None, 0.0) no-solution result.  For current semester fall, iap or      *)
(* spring, _generate_terms always returns a non-empty term list.           *)
(***************************************************************************)
C29_SummerStartRaises ==
    /\ student_profile.semester \in Term
    /\ student_profile.semester = SUMMER =>
          /\ generate_terms_raises(student_profile)
          /\ SolveEnded =>
                /\ pc = "raised"
                /\ ~ Solved
                /\ planned_terms = <<>>
                /\ schedule = NoSchedule
    /\ student_profile.semester # SUMMER =>
          /\ ~ generate_terms_raises(student_profile)
          /\ generate_terms(student_profile) # <<>>
          /\ SolveEnded =>
                /\ pc # "raised"
                /\ Solved
                /\ planned_terms = generate_terms(student_profile)
                /\ planned_terms # <<>>

C29_Witness ==
    /\ pc = "raised"
    /\ student_profile.semester = SUMMER
    /\ available_courses # <<>>

\* some requirement of the list that a schedule without courses does not cover
LeftUncovered ==
    \E r \in DOMAIN requirements :
       /\ requirements[r].rule_type \in {SPECIFIC_COURSE, UNITS}
       /\ ~ Covered(requirements[r], result.schedule)

(***************************************************************************)
(* C30: when the catalog (available_courses) is empty, no constraint of    *)
(* any group is added whatever the requirement list is, so solve reports   *)
(* success and returns a Schedule with zero terms and score 0.0 instead of *)
(* the no-solution result (None, 0.0), even though requirements are left   *)
(* uncovered.                                                              *)
(***************************************************************************)
C30_EmptyCatalogSucceeds ==
    (available_courses = <<>> /\ pc \in {"returned", "validated"}) =>
       /\ status # INFEASIBLE
       /\ FeasibleAssignments(student_profile, requirements, available_courses,
                              course_offerings, planned_terms)
             = {NoSolution(planned_terms)}
       /\ Decided =>
             /\ solution_found(status)
             /\ result # NoResult
             /\ result.schedule # NoSchedule
             /\ result.schedule.terms = <<>>
             /\ SameFraction(result.score, Fraction(0, 1))

C30_Witness ==
    /\ available_courses = <<>>
    /\ HasSchedule
    /\ status = OPTIMAL
    /\ result.schedule.terms = <<>>
    /\ LeftUncovered

====
